---- MODULE Spec2Model ----
(***************************************************************************)
(* A model of standup-bot: the personal-log merger (pkg/standup), the git  *)
(* client (pkg/git) and the submit workflows (internal/cli/commands).      *)
(*                                                                         *)
(* Text is modelled as a sequence of tokens.  A token is one character     *)
(* ("#", " ", "-", the line break) or an indivisible word (a date in       *)
(* YYYY-MM-DD form, a user name, a label).  The string functions of the    *)
(* code (HasPrefix, Contains, TrimSpace, Split) are computed on tokens.    *)
(***************************************************************************)
EXTENDS Integers, Sequences, FiniteSets, TLC

VARIABLES
    log,        \* stand-ups/<user>.md of the single-clone specifications: NoFile or its text
    saved,      \* the entry given to the last SaveEntry call (NoEntry before the first)
    nSaves,     \* the number of writes the personal log has seen so far
    remote,     \* the shared repository: branch -> its commits
    prs,        \* the pull requests of the host, by number
    clone,      \* contributor -> the clone: checked-out branch, branches, remote-tracking branches
    pc,         \* contributor -> the step the run is at ("idle" between runs)
    run,        \* contributor -> the locals of the run
    result,     \* contributor -> what the last run returned
    tmp,        \* contributor -> the recovery file /tmp/standup-<user>-<date>.txt
    nFaults     \* the number of exchanges the environment has failed so far

docVars == <<log, saved, nSaves>>

gitVars == <<remote, prs, clone, pc, run, result, tmp, nFaults>>

vars == <<log, saved, nSaves, remote, prs, clone, pc, run, result, tmp, nFaults>>

----------------------------------------------------------------------------
(* Bounds of the model *)

MaxLines == 3

MaxSaves == 3

MaxRuns == 3

MaxFaults == 1

----------------------------------------------------------------------------
(* Strings *)

NL == "\n"

WhiteSpace == {" ", NL, "\t", "\r"}

Max(S) == CHOOSE x \in S : \A y \in S : y <= x

Min(S) == CHOOSE x \in S : \A y \in S : x <= y

HasPrefix(s, p) == Len(s) >= Len(p) /\ SubSeq(s, 1, Len(p)) = p

Contains(s, sub) == \E i \in 0..(Len(s) - Len(sub)) : SubSeq(s, i + 1, i + Len(sub)) = sub

TrimSpace(s) ==
    LET keep == {i \in 1..Len(s) : s[i] \notin WhiteSpace}
    IN  IF keep = {} THEN <<>> ELSE SubSeq(s, Min(keep), Max(keep))

RECURSIVE Split(_)
Split(s) ==
    LET nl == {i \in 1..Len(s) : s[i] = NL}
    IN  IF nl = {} THEN <<s>>
        ELSE <<SubSeq(s, 1, Min(nl) - 1)>> \o Split(SubSeq(s, Min(nl) + 1, Len(s)))

RECURSIVE JoinLines(_)
JoinLines(ls) ==
    IF ls = <<>> THEN <<>>
    ELSE IF Len(ls) = 1 THEN ls[1]
    ELSE ls[1] \o <<NL>> \o JoinLines(Tail(ls))

RECURSIVE Concat(_)
Concat(ss) == IF ss = <<>> THEN <<>> ELSE Head(ss) \o Concat(Tail(ss))

----------------------------------------------------------------------------
(* Entries: pkg/standup Entry *)

Users == {"Alice", "Bob"}

Dates == {1, 2}

DateFormat(d) == IF d = 1 THEN "2024-01-30" ELSE "2024-01-31"

HeadingLine(d) == <<"#", "#", " ", DateFormat(d)>>

Separator == <<"-", "-", "-">>

HeaderLine(u) == <<"#", " ", u, "'s Standups">>

ItemLists == {<<>>, <<"did x">>}

BlockerTexts == {<<"None">>, <<"waiting">>} \cup {HeadingLine(d) : d \in Dates}

Entries == [Date : Dates, Yesterday : ItemLists, Today : ItemLists, Blockers : BlockerTexts]

NoEntry == [Date |-> 0]

NoFile == <<"<missing>">>

----------------------------------------------------------------------------
(* The merger: pkg/standup Manager *)

\* The variant that writes the items last first.
formatSectionReversed(title, items, defaultMsg) ==
    <<title, NL>>
    \o (IF Len(items) = 0
        THEN <<"-", " ", defaultMsg, NL>>
        ELSE Concat([i \in 1..Len(items) |-> <<"-", " ", items[Len(items) + 1 - i], NL>>]))
    \o <<NL>>

formatSection(title, items, defaultMsg) ==
    <<title, NL>>
    \o (IF Len(items) = 0
        THEN <<"-", " ", defaultMsg, NL>>
        ELSE Concat([i \in 1..Len(items) |-> <<"-", " ", items[i], NL>>]))
    \o <<NL>>

formatEntry(entry) ==
    HeadingLine(entry.Date) \o <<NL, NL>>
    \o formatSection("**Yesterday:**", entry.Yesterday, "Nothing to report")
    \o formatSection("**Today:**", entry.Today, "Nothing planned")
    \o <<"**Blockers:**", NL>> \o entry.Blockers \o <<NL, NL>> \o Separator \o <<NL>>

\* The variant that leaves out the line break after the section.
buildNewFileContentNoTrailer(entry, userName) ==
    HeaderLine(userName) \o <<NL, NL>> \o formatEntry(entry)

buildNewFileContent(entry, userName) ==
    HeaderLine(userName) \o <<NL, NL>> \o formatEntry(entry) \o <<NL>>

isHeader(line) == HasPrefix(line, <<"#", " ">>) /\ Contains(line, <<"'s Standups">>)

shouldSkipLine(line, index, total, state) ==
    /\ state.headerFound
    /\ index < total - 1
    /\ TrimSpace(line) = <<>>
    /\ ~state.inTodayEntry

isTodayEntry(line, dateStr) == HasPrefix(line, <<"#", "#", " ">>) /\ Contains(line, <<dateStr>>)

isEntryEnd(line) == line = Separator \/ HasPrefix(line, <<"#", "#", " ">>)

parseStart == [currentEntry |-> <<>>, inTodayEntry |-> FALSE, headerFound |-> FALSE, header |-> <<>>]

\* processLine without the return that follows the capture of the header: the
\* header line is captured and also collected as content.
processLineKeepsHeader(line, index, total, state, dateStr) ==
    IF isHeader(line) /\ ~state.headerFound
    THEN [state EXCEPT !.headerFound = TRUE, !.header = line,
                       !.currentEntry = @ \o line \o <<NL>>]
    ELSE IF shouldSkipLine(line, index, total, state)
    THEN state
    ELSE IF isTodayEntry(line, dateStr)
    THEN [state EXCEPT !.inTodayEntry = TRUE]
    ELSE IF state.inTodayEntry /\ isEntryEnd(line) /\ line = Separator
    THEN [state EXCEPT !.inTodayEntry = FALSE]
    ELSE LET s == IF state.inTodayEntry /\ isEntryEnd(line)
                  THEN [state EXCEPT !.inTodayEntry = FALSE]
                  ELSE state
         IN  IF ~s.inTodayEntry /\ s.headerFound
             THEN [s EXCEPT !.currentEntry = @ \o line \o <<NL>>]
             ELSE s

\* processLine without the test that a header was found before: every
\* header-like line is captured as the header.
processLineEveryHeader(line, index, total, state, dateStr) ==
    IF isHeader(line)
    THEN [state EXCEPT !.headerFound = TRUE, !.header = line]
    ELSE IF shouldSkipLine(line, index, total, state)
    THEN state
    ELSE IF isTodayEntry(line, dateStr)
    THEN [state EXCEPT !.inTodayEntry = TRUE]
    ELSE IF state.inTodayEntry /\ isEntryEnd(line) /\ line = Separator
    THEN [state EXCEPT !.inTodayEntry = FALSE]
    ELSE LET s == IF state.inTodayEntry /\ isEntryEnd(line)
                  THEN [state EXCEPT !.inTodayEntry = FALSE]
                  ELSE state
         IN  IF ~s.inTodayEntry /\ s.headerFound
             THEN [s EXCEPT !.currentEntry = @ \o line \o <<NL>>]
             ELSE s

processLine(line, index, total, state, dateStr) ==
    IF isHeader(line) /\ ~state.headerFound
    THEN [state EXCEPT !.headerFound = TRUE, !.header = line]
    ELSE IF shouldSkipLine(line, index, total, state)
    THEN state
    ELSE IF isTodayEntry(line, dateStr)
    THEN [state EXCEPT !.inTodayEntry = TRUE]
    ELSE IF state.inTodayEntry /\ isEntryEnd(line) /\ line = Separator
    THEN [state EXCEPT !.inTodayEntry = FALSE]
    ELSE LET s == IF state.inTodayEntry /\ isEntryEnd(line)
                  THEN [state EXCEPT !.inTodayEntry = FALSE]
                  ELSE state
         IN  IF ~s.inTodayEntry /\ s.headerFound
             THEN [s EXCEPT !.currentEntry = @ \o line \o <<NL>>]
             ELSE s

RECURSIVE parseLoop(_, _, _, _)
parseLoop(lines, i, state, dateStr) ==
    IF i > Len(lines) THEN state
    ELSE parseLoop(lines, i + 1, processLine(lines[i], i - 1, Len(lines), state, dateStr), dateStr)

finalizeEntry(state) ==
    IF Len(state.currentEntry) > 0 THEN <<TrimSpace(state.currentEntry)>> ELSE <<>>

parse(content, dateStr) ==
    LET state == parseLoop(Split(content), 1, parseStart, dateStr)
    IN  [header |-> state.header, otherEntries |-> finalizeEntry(state)]

assembleContent(parsed, entry, userName) ==
    (IF parsed.header # <<>> THEN parsed.header ELSE HeaderLine(userName))
    \o <<NL, NL>>
    \o formatEntry(entry) \o <<NL>>
    \o Concat([i \in 1..Len(parsed.otherEntries) |->
                 IF parsed.otherEntries[i] # <<>> THEN parsed.otherEntries[i] \o <<NL>> ELSE <<>>])

buildUpdatedContent(existingContent, entry, userName) ==
    IF existingContent = <<>>
    THEN buildNewFileContent(entry, userName)
    ELSE assembleContent(parse(existingContent, DateFormat(entry.Date)), entry, userName)

readExistingContent(file) == IF file = NoFile THEN <<>> ELSE file

SaveEntryContent(file, entry, userName) ==
    buildUpdatedContent(readExistingContent(file), entry, userName)

----------------------------------------------------------------------------
(* The shared repository, the clones and the pull requests                 *)
(*                                                                         *)
(* A branch is the sequence of the commits on it, oldest first; a branch   *)
(* that does not exist is the empty sequence.  Each commit of the program  *)
(* changes one file (git add . in a clean working copy after one write),   *)
(* so a commit is the file it wrote and the file's new text.  A branch is  *)
(* an ancestor of another when it is a prefix of it.                       *)

Contributors == Users

Today == 2

Yesterday == 1

MainBranch == <<"main">>

DailyBranch(d) == <<"standup/", DateFormat(d)>>

Branches == {MainBranch, DailyBranch(Today)}

NoBranches == [b \in Branches |-> <<>>]

ReadmeFile == "README.md"

ReadmeCommit(c) == [file |-> ReadmeFile, doc |-> <<"# Team Standups">>, by |-> c]

IsPrefix(h1, h2) == Len(h1) <= Len(h2) /\ SubSeq(h2, 1, Len(h1)) = h1

\* The text of a file in the working copy checked out at the tip of history h.
FileOf(h, f) ==
    LET idx == {i \in 1..Len(h) : h[i].file = f}
    IN  IF idx = {} THEN NoFile ELSE h[Max(idx)].doc

CommonLen(h1, h2) ==
    Max({n \in 0..Min({Len(h1), Len(h2)}) : SubSeq(h1, 1, n) = SubSeq(h2, 1, n)})

Mine(local, upstream) == SubSeq(local, CommonLen(local, upstream) + 1, Len(local))

Theirs(local, upstream) == SubSeq(upstream, CommonLen(local, upstream) + 1, Len(upstream))

\* Both sides changed one file, to different texts.
Conflict(local, upstream) ==
    \E i \in 1..Len(Mine(local, upstream)), j \in 1..Len(Theirs(local, upstream)) :
        /\ Mine(local, upstream)[i].file = Theirs(local, upstream)[j].file
        /\ Mine(local, upstream)[i].doc # Theirs(local, upstream)[j].doc

\* The local commits replayed on the upstream branch (rebase), which is also
\* how a merge is recorded: upstream first, then the local commits.
Replay(local, upstream) ==
    upstream \o SelectSeq(Mine(local, upstream),
                          LAMBDA m : \A j \in 1..Len(upstream) :
                                        ~(upstream[j].file = m.file /\ upstream[j].doc = m.doc))

\* git push -u origin <branch>: accepted when it creates the branch or
\* fast-forwards it.
PushAccepted(local, remoteBranch) == local # <<>> /\ IsPrefix(remoteBranch, local)

ToLower(u) == IF u = "Alice" THEN "alice" ELSE IF u = "Bob" THEN "bob" ELSE u

\* os.ReadDir returns the files of stand-ups/ sorted by name.
SortedFiles == <<"Alice", "Bob">>

TempPath(userName, d) == <<"/tmp/standup-", userName, "-", DateFormat(d), ".txt">>

RECURSIVE ItemLines(_)
ItemLines(items) ==
    IF items = <<>> THEN <<>> ELSE <<"-", " ", Head(items), NL>> \o ItemLines(Tail(items))

saveTempStandupContent(entry, userName) ==
    <<"Standup for ", userName, " on ", DateFormat(entry.Date), NL, NL, "Yesterday:", NL>>
    \o ItemLines(entry.Yesterday)
    \o <<NL, "Today:", NL>>
    \o ItemLines(entry.Today)
    \o <<NL, "Blockers:", NL>> \o entry.Blockers \o <<NL>>

----------------------------------------------------------------------------
(* The body of the daily pull request *)

RECURSIVE extractLoop(_, _, _, _)
extractLoop(lines, i, inTodaySection, todayContent) ==
    IF i > Len(lines) THEN todayContent
    ELSE IF HasPrefix(lines[i], <<"#", "#", " ">>) /\ Contains(lines[i], <<DateFormat(Today)>>)
    THEN extractLoop(lines, i + 1, TRUE, todayContent)
    ELSE IF inTodaySection
    THEN IF HasPrefix(lines[i], <<"#", "#", " ">>) \/ lines[i] = Separator
         THEN todayContent
         ELSE extractLoop(lines, i + 1, inTodaySection, Append(todayContent, lines[i]))
    ELSE extractLoop(lines, i + 1, inTodaySection, todayContent)

extractTodayStandup(content) ==
    TrimSpace(JoinLines(extractLoop(Split(content), 1, FALSE, <<>>)))

BlockHeading(userName) == <<"#", "#", " ", ToLower(userName), NL>>

PRBodyBlock(h, userName) ==
    IF FileOf(h, userName) # NoFile /\ extractTodayStandup(FileOf(h, userName)) # <<>>
    THEN BlockHeading(userName) \o <<NL>> \o extractTodayStandup(FileOf(h, userName))
         \o <<NL, NL>> \o Separator \o <<NL, NL>>
    ELSE <<>>

\* The variant that writes a block for every personal log, with or without a
\* section for today.
FormatDailyPRBodyEveryFile(h) ==
    <<"# Daily Standups - ", DateFormat(Today), NL, NL>>
    \o Concat([i \in 1..Len(SortedFiles) |->
                 IF FileOf(h, SortedFiles[i]) # NoFile
                 THEN BlockHeading(SortedFiles[i]) \o <<NL>>
                      \o extractTodayStandup(FileOf(h, SortedFiles[i]))
                      \o <<NL, NL>> \o Separator \o <<NL, NL>>
                 ELSE <<>>])
    \o <<NL, "To merge this PR, run: standup-bot --merge", NL>>

\* h is the branch checked out in the working copy the body is generated in.
FormatDailyPRBody(h) ==
    <<"# Daily Standups - ", DateFormat(Today), NL, NL>>
    \o Concat([i \in 1..Len(SortedFiles) |-> PRBodyBlock(h, SortedFiles[i])])
    \o <<NL, "To merge this PR, run: standup-bot --merge", NL>>

OpenPRs(head) == {n \in 1..Len(prs) : prs[n].head = head /\ prs[n].open}

----------------------------------------------------------------------------
(* One run of a submit workflow by a contributor, step by step.  Each step *)
(* holds at most one exchange with the shared repository or the host, so   *)
(* the runs of two contributors interleave between the exchanges.  The     *)
(* parameter f of a step says that its exchange fails for a reason of the  *)
(* environment (network, host).                                            *)

Inputs ==
    { [Yesterday |-> <<"did x">>, Today |-> <<>>, Blockers |-> <<"waiting">>],
      [Yesterday |-> <<>>, Today |-> <<>>, Blockers |-> <<>>] }

NoInput == [Yesterday |-> <<>>, Today |-> <<>>, Blockers |-> <<"-">>]

DefaultBlockers(b) == IF b = <<>> THEN <<"None">> ELSE b

\* The variant of ParseJSONInput's validation that wants both lists.
ParseJSONInputFailsOnEither(input) == Len(input.Yesterday) = 0 \/ Len(input.Today) = 0

ParseJSONInputFails(input) == Len(input.Yesterday) = 0 /\ Len(input.Today) = 0

ParseJSONInput(input) ==
    [Date |-> Today, Yesterday |-> input.Yesterday, Today |-> input.Today,
     Blockers |-> DefaultBlockers(input.Blockers)]

handleSubmitStandupEntry(input) ==
    [Date |-> Today, Yesterday |-> input.Yesterday, Today |-> input.Today,
     Blockers |-> DefaultBlockers(input.Blockers)]

\* time.Now() not taken yet.
NoTime == [year |-> 0, month |-> 0, day |-> 0, hour |-> 0]

IdleRun ==
    [n |-> 0, workflow |-> "pr", path |-> "cli", input |-> NoInput, entry |-> NoEntry,
     faulted |-> FALSE, remoteDailyAtStart |-> FALSE, hadLocal |-> FALSE,
     prExists |-> FALSE, prNumber |-> 0, nPush |-> 0, nRecover |-> 0, nMergeCalls |-> 0,
     outputFormat |-> "", now |-> NoTime, branchName |-> <<>>,
     since |-> NoTime, commits |-> <<>>, items |-> <<>>, fsFault |-> "none"]

\* What a run returned: printed holds the JSON objects it wrote to the standard
\* output, returned the error the workflow function returned (<<>> for nil).
NoResult ==
    [status |-> "none", step |-> "", err |-> <<>>, pr |-> 0, body |-> <<>>,
     printed |-> <<>>, returned |-> <<>>]

Failure(step, err) ==
    [status |-> "error", step |-> step, err |-> err, pr |-> 0, body |-> <<>>,
     printed |-> <<>>, returned |-> err]

Success(pr, body) ==
    [status |-> "ok", step |-> "", err |-> <<>>, pr |-> pr, body |-> body,
     printed |-> <<>>, returned |-> <<>>]

JSONOutput(success, error) == [success |-> success, error |-> error]

\* The variant of handleError that prints the JSON object and returns the
\* error as well.
handleErrorInAndReturn(path, outputFormat, step, err) ==
    IF path = "cli" /\ outputFormat = "json"
    THEN [Failure(step, err) EXCEPT !.printed = <<JSONOutput(FALSE, err)>>]
    ELSE Failure(step, err)

\* handleError of the CLI workflows: in the json format the error is printed
\* as one JSON object and nil is returned.  The RPC handlers return the error.
handleErrorIn(path, outputFormat, step, err) ==
    IF path = "cli" /\ outputFormat = "json"
    THEN [Failure(step, err) EXCEPT !.printed = <<JSONOutput(FALSE, err)>>, !.returned = <<>>]
    ELSE Failure(step, err)

\* The end of a CLI workflow that succeeded, and of an RPC handler.
SucceededIn(path, outputFormat, pr, body) ==
    IF path = "cli" /\ outputFormat = "json"
    THEN [Success(pr, body) EXCEPT !.printed = <<JSONOutput(TRUE, <<>>)>>]
    ELSE Success(pr, body)

\* The environment fails the exchange of a step (f) at most MaxFaults times.
Fault(f) ==
    /\ f => nFaults < MaxFaults
    /\ nFaults' = IF f THEN nFaults + 1 ELSE nFaults

RunsStarted == run["Alice"].n + run["Bob"].n

Daily == DailyBranch(Today)

\* The locals r of the runs after a step of c: a run that has returned (its
\* step led to "idle") has dropped its arguments and what it knew of the host.
\* The output format of a CLI run stays on record.
Return(c, r) ==
    IF pc'[c] = "idle"
    THEN [r EXCEPT ![c].path = "", ![c].input = NoInput,
                   ![c].outputFormat = IF r[c].path = "cli" THEN @ ELSE "",
                   ![c].prExists = FALSE, ![c].prNumber = 0]
    ELSE r

WorkingCopy(c) == clone[c].heads[clone[c].cur]

handleError(c, step, err) == handleErrorIn(run[c].path, run[c].outputFormat, step, err)

Succeeded(c, pr, body) == SucceededIn(run[c].path, run[c].outputFormat, pr, body)

\* validateEnvironment, and the entry of the RPC path (handleSubmitStandup).
Start(c, workflow, path, outputFormat, input, f) ==
    /\ pc[c] = "idle"
    /\ RunsStarted < MaxRuns
    /\ Fault(f)
    /\ IF f
       THEN /\ pc' = pc
            /\ result' = [result EXCEPT ![c] =
                            handleErrorIn(path, outputFormat, "validate",
                                          <<"GitHub CLI not authenticated">>)]
       ELSE /\ pc' = [pc EXCEPT ![c] = "sync"]
            /\ result' = [result EXCEPT ![c] = NoResult]
    /\ run' = Return(c, [run EXCEPT ![c] =
                 [IdleRun EXCEPT !.n = run[c].n + 1,
                                 !.workflow = workflow,
                                 !.path = path,
                                 !.outputFormat = outputFormat,
                                 !.input = input,
                                 !.entry = IF path = "rpc" THEN handleSubmitStandupEntry(input)
                                           ELSE NoEntry,
                                 !.faulted = f,
                                 !.remoteDailyAtStart = remote[Daily] # <<>>]])
    /\ UNCHANGED <<remote, prs, clone, tmp, docVars>>

isEmptyRepository(cl) == \A b \in Branches : cl.heads[b] = <<>> /\ cl.orig[b] = <<>>

\* git fetch --all: the remote-tracking branches follow the shared repository.
fetchAll(cl) ==
    [cl EXCEPT !.orig = [b \in Branches |-> IF remote[b] # <<>> THEN remote[b] ELSE cl.orig[b]]]

\* remoteBranchExists (git rev-parse origin/<branch>) and resetToRemote.
resetToRemote(cl) ==
    IF cl.orig[cl.cur] # <<>> THEN [cl EXCEPT !.heads[cl.cur] = cl.orig[cl.cur]] ELSE cl

\* git branch --show-current prints nothing when HEAD is detached.
Detached == <<>>

\* SyncRepository after the check for an empty repository, the fetch succeeding
syncWithRemote(cl) ==
    IF cl.cur = Detached THEN fetchAll(cl) ELSE resetToRemote(fetchAll(cl))

SyncRepository(c, f) ==
    /\ pc[c] = "sync"
    /\ f => ~isEmptyRepository(clone[c])
    /\ Fault(f)
    /\ IF isEmptyRepository(clone[c])
       THEN /\ clone' = clone
            /\ pc' = [pc EXCEPT ![c] = IF run[c].workflow = "pr" THEN "ensureMain" ELSE "save"]
            /\ result' = result
       ELSE IF f
       THEN /\ clone' = clone
            /\ pc' = [pc EXCEPT ![c] = "idle"]
            /\ result' = [result EXCEPT ![c] =
                            handleError(c, "sync", <<"failed to sync repository: ",
                                              "failed to fetch remote changes">>)]
       ELSE /\ clone' = [clone EXCEPT ![c] = syncWithRemote(clone[c])]
            /\ pc' = [pc EXCEPT ![c] = IF run[c].workflow = "pr" THEN "ensureMain" ELSE "save"]
            /\ result' = result
    /\ run' = Return(c, [run EXCEPT ![c].faulted = @ \/ f])
    /\ UNCHANGED <<remote, prs, tmp, docVars>>

\* The entry of the CLI path is parsed after the repository was prepared.
\* r is the run record and next the step that follows a good parse.
CollectEntry(c, r, next) ==
    IF r[c].path = "cli" /\ ParseJSONInputFails(r[c].input)
    THEN /\ pc' = [pc EXCEPT ![c] = "idle"]
         /\ result' = [result EXCEPT ![c] =
                         handleError(c, "parse", <<"failed to parse JSON input: ",
                                            "at least one of 'yesterday' or 'today' must have entries">>)]
         /\ run' = Return(c, r)
    ELSE /\ pc' = [pc EXCEPT ![c] = next]
         /\ result' = result
         /\ run' = [r EXCEPT ![c].entry = IF r[c].path = "cli" THEN ParseJSONInput(r[c].input)
                                          ELSE r[c].entry]

\* ensureMainBranch up to the commit of createInitialMainBranch.  f says that
\* the git command of the step fails: git checkout main when main exists
\* locally, git ls-remote otherwise (RemoteBranchExists is then false).
ensureMainBranch(c, f) ==
    /\ pc[c] = "ensureMain"
    /\ f => (clone[c].heads[MainBranch] # <<>> \/ remote[MainBranch] # <<>>)
    /\ Fault(f)
    /\ LET cl == clone[c]
           mainExistsLocal == cl.heads[MainBranch] # <<>>
           mainExistsRemote == ~f /\ remote[MainBranch] # <<>>
           r == [run EXCEPT ![c].faulted = @ \/ f]
       IN  IF ~mainExistsLocal /\ ~mainExistsRemote
           THEN /\ clone' = [clone EXCEPT ![c].heads[cl.cur] = Append(@, ReadmeCommit(c))]
                /\ pc' = [pc EXCEPT ![c] = "pushMain"]
                /\ run' = r
                /\ UNCHANGED result
           ELSE IF mainExistsLocal /\ f
           THEN /\ pc' = [pc EXCEPT ![c] = "idle"]
                /\ run' = Return(c, r)
                /\ result' = [result EXCEPT ![c] =
                                handleError(c, "ensureMain", <<"failed to switch to main branch">>)]
                /\ UNCHANGED clone
           ELSE /\ clone' = IF mainExistsLocal THEN [clone EXCEPT ![c].cur = MainBranch]
                            ELSE clone
                /\ CollectEntry(c, r, "branch")
    /\ UNCHANGED <<remote, prs, tmp, docVars>>

\* createInitialMainBranch: the push of main that ends it.
pushMainBranch(c, f) ==
    /\ pc[c] = "pushMain"
    /\ Fault(f)
    /\ LET local == clone[c].heads[MainBranch]
           r == [run EXCEPT ![c].faulted = @ \/ f]
       IN  IF ~f /\ PushAccepted(local, remote[MainBranch])
           THEN /\ remote' = [remote EXCEPT ![MainBranch] = local]
                /\ clone' = [clone EXCEPT ![c].orig[MainBranch] = local]
                /\ CollectEntry(c, r, "branch")
           ELSE /\ pc' = [pc EXCEPT ![c] = "idle"]
                /\ run' = Return(c, r)
                /\ result' = [result EXCEPT ![c] =
                                handleError(c, "ensureMain", <<"failed to create initial main branch: ",
                                                        "failed to push main branch">>)]
                /\ UNCHANGED <<remote, clone>>
    /\ UNCHANGED <<prs, tmp, docVars>>

\* git pull origin <branch> into the checked-out branch.  merges says whether
\* this git merges diverged branches on a plain pull or refuses to.
PullBranch(cl, branch, merges) ==
    LET local == cl.heads[branch]
        theirs == remote[branch]
        fetched == [cl EXCEPT !.orig[branch] = theirs]
    IN  IF IsPrefix(local, theirs) THEN [fetched EXCEPT !.heads[branch] = theirs]
        ELSE IF IsPrefix(theirs, local) THEN fetched
        ELSE IF merges /\ ~Conflict(local, theirs) /\ CommonLen(local, theirs) > 0
        THEN [fetched EXCEPT !.heads[branch] = Replay(local, theirs)]
        ELSE fetched

\* handleBranchWithOutput
handleBranch(cl, branch, f, merges) ==
    IF cl.heads[branch] # <<>>
    THEN IF f \/ remote[branch] = <<>>
         THEN [cl EXCEPT !.cur = branch]
         ELSE PullBranch([cl EXCEPT !.cur = branch], branch, merges)
    ELSE [cl EXCEPT !.heads[branch] = cl.heads[cl.cur], !.cur = branch]

\* handleBranch, SaveEntry and commitStandupChanges of createOrUpdateStandupPR
commitOnDailyBranch(c, f, merges) ==
    /\ pc[c] = "branch"
    /\ f => (clone[c].heads[Daily] # <<>> /\ remote[Daily] # <<>>)
    /\ merges => ( /\ ~f
                   /\ clone[c].heads[Daily] # <<>>
                   /\ remote[Daily] # <<>>
                   /\ ~IsPrefix(clone[c].heads[Daily], remote[Daily])
                   /\ ~IsPrefix(remote[Daily], clone[c].heads[Daily]) )
    /\ Fault(f)
    /\ LET cl == handleBranch(clone[c], Daily, f, merges)
           old == FileOf(cl.heads[Daily], c)
           new == SaveEntryContent(old, run[c].entry, c)
       IN  /\ IF new = old
              THEN /\ clone' = [clone EXCEPT ![c] = cl]
                   /\ pc' = [pc EXCEPT ![c] = "idle"]
                   /\ result' = [result EXCEPT ![c] = handleError(c, "commit", <<"failed to commit">>)]
              ELSE /\ clone' = [clone EXCEPT ![c] =
                                  [cl EXCEPT !.heads[Daily] =
                                      Append(@, [file |-> c, doc |-> new, by |-> c])]]
                   /\ pc' = [pc EXCEPT ![c] = "push"]
                   /\ result' = result
    /\ run' = Return(c, [run EXCEPT ![c].faulted = @ \/ f,
                                    ![c].hadLocal = clone[c].heads[Daily] # <<>>])
    /\ UNCHANGED <<remote, prs, tmp, docVars>>

saveTempStandup(c) == [tmp EXCEPT ![c] = saveTempStandupContent(run[c].entry, c)]

PushFailedSaved(c, why) ==
    handleError(c, "push", <<"failed to push changes: ", why, NL, "Your standup has been saved to: ">>
                    \o TempPath(c, run[c].entry.Date))

\* The variant of the push step that goes on to the pull request whether or
\* not the push was accepted.
PushBranchThenUpsertAnyway(c, f) ==
    /\ pc[c] = "push"
    /\ Fault(f)
    /\ LET local == clone[c].heads[Daily]
       IN  IF ~f /\ PushAccepted(local, remote[Daily])
           THEN /\ remote' = [remote EXCEPT ![Daily] = local]
                /\ clone' = [clone EXCEPT ![c].orig[Daily] = local]
           ELSE UNCHANGED <<remote, clone>>
    /\ pc' = [pc EXCEPT ![c] = "prQuery"]
    /\ run' = Return(c, [run EXCEPT ![c].faulted = @ \/ f, ![c].nPush = @ + 1])
    /\ UNCHANGED <<result, tmp, prs, docVars>>

\* PushBranch of createOrUpdateStandupPR
PushBranch(c, f) ==
    /\ pc[c] = "push"
    /\ Fault(f)
    /\ LET local == clone[c].heads[Daily]
       IN  IF ~f /\ PushAccepted(local, remote[Daily])
           THEN /\ remote' = [remote EXCEPT ![Daily] = local]
                /\ clone' = [clone EXCEPT ![c].orig[Daily] = local]
                /\ pc' = [pc EXCEPT ![c] = "prQuery"]
                /\ UNCHANGED <<result, tmp>>
           ELSE /\ tmp' = saveTempStandup(c)
                /\ pc' = [pc EXCEPT ![c] = "idle"]
                /\ result' = [result EXCEPT ![c] = PushFailedSaved(c, "failed to push branch")]
                /\ UNCHANGED <<remote, clone>>
    /\ run' = Return(c, [run EXCEPT ![c].faulted = @ \/ f, ![c].nPush = @ + 1])
    /\ UNCHANGED <<prs, docVars>>

\* handlePullRequest: the query for an open pull request of the branch
PRExistsForBranch(c, f) ==
    /\ pc[c] = "prQuery"
    /\ Fault(f)
    /\ run' = [run EXCEPT ![c].faulted = @ \/ f,
                          ![c].prExists = ~f /\ OpenPRs(Daily) # {},
                          ![c].prNumber = IF ~f /\ OpenPRs(Daily) # {}
                                          THEN Max(OpenPRs(Daily)) ELSE 0]
    /\ pc' = [pc EXCEPT ![c] = "prUpsert"]
    /\ UNCHANGED <<remote, prs, clone, result, tmp, docVars>>

\* The host refuses a second open pull request for one head branch.
HostAcceptsPR(head) == OpenPRs(head) = {}

\* The variant of handlePullRequest that returns the error of a failed update
\* of the body instead of printing it as a warning.
handlePullRequestUpdateFatal(c, f) ==
    /\ pc[c] = "prUpsert"
    /\ Fault(f)
    /\ pc' = [pc EXCEPT ![c] = "idle"]
    /\ run' = Return(c, [run EXCEPT ![c].faulted = @ \/ f])
    /\ LET prBody == FormatDailyPRBody(WorkingCopy(c))
       IN  IF run[c].prExists /\ ~f
           THEN /\ prs' = [prs EXCEPT ![run[c].prNumber].body = prBody]
                /\ result' = [result EXCEPT ![c] = Succeeded(c, run[c].prNumber, prBody)]
           ELSE IF run[c].prExists
           THEN /\ prs' = prs
                /\ result' = [result EXCEPT ![c] =
                                handleError(c, "pr", <<"failed to update pull request: ">>)]
           ELSE IF ~f /\ HostAcceptsPR(clone[c].cur)
           THEN /\ prs' = Append(prs, [head |-> clone[c].cur, body |-> prBody, open |-> TRUE])
                /\ result' = [result EXCEPT ![c] = Succeeded(c, Len(prs) + 1, prBody)]
           ELSE /\ prs' = prs
                /\ result' = [result EXCEPT ![c] =
                                handleError(c, "pr", <<"failed to create pull request: ">>)]
    /\ UNCHANGED <<remote, clone, tmp, docVars>>

\* handlePullRequest: the update of the pull request found, or the creation
handlePullRequest(c, f) ==
    /\ pc[c] = "prUpsert"
    /\ Fault(f)
    /\ pc' = [pc EXCEPT ![c] = "idle"]
    /\ run' = Return(c, [run EXCEPT ![c].faulted = @ \/ f])
    /\ LET prBody == FormatDailyPRBody(WorkingCopy(c))
       IN  IF run[c].prExists
           THEN /\ prs' = IF f THEN prs ELSE [prs EXCEPT ![run[c].prNumber].body = prBody]
                /\ result' = [result EXCEPT ![c] = Succeeded(c, run[c].prNumber, prBody)]
           ELSE IF ~f /\ HostAcceptsPR(clone[c].cur)
           THEN /\ prs' = Append(prs, [head |-> clone[c].cur, body |-> prBody, open |-> TRUE])
                /\ result' = [result EXCEPT ![c] = Succeeded(c, Len(prs) + 1, prBody)]
           ELSE /\ prs' = prs
                /\ result' = [result EXCEPT ![c] =
                                handleError(c, "pr", <<"failed to create pull request: ">>)]
    /\ UNCHANGED <<remote, clone, tmp, docVars>>

----------------------------------------------------------------------------
(* The direct workflow: RunStandupDirect and submitStandupDirect *)

\* What both entry paths do with an error of CommitAndPush: the CLI saves the
\* entry to the recovery file and names it, the RPC handler returns the error.
CommitAndPushFailed(c, step, why) ==
    /\ pc' = [pc EXCEPT ![c] = "idle"]
    /\ IF run[c].path = "cli"
       THEN /\ tmp' = saveTempStandup(c)
            /\ result' = [result EXCEPT ![c] =
                            handleError(c, step, <<"failed to push changes: ">> \o why
                                          \o <<NL, "Your standup has been saved to: ">>
                                          \o TempPath(c, run[c].entry.Date))]
       ELSE /\ tmp' = tmp
            /\ result' = [result EXCEPT ![c] = handleError(c, step, <<"failed to push changes: ">> \o why)]

\* The variant of CommitAndPush without the check of the staging area: it
\* commits and goes on to push whether or not the save changed the file.
saveAndCommitUnchecked(c) ==
    /\ pc[c] = "save"
    /\ IF run[c].path = "cli" /\ ParseJSONInputFails(run[c].input)
       THEN /\ CollectEntry(c, run, "save")
            /\ UNCHANGED <<clone, tmp>>
       ELSE LET entry == IF run[c].path = "cli" THEN ParseJSONInput(run[c].input)
                         ELSE run[c].entry
                old == FileOf(WorkingCopy(c), c)
                new == SaveEntryContent(old, entry, c)
            IN  /\ clone' = [clone EXCEPT ![c].heads[clone[c].cur] =
                                Append(@, [file |-> c, doc |-> new, by |-> c])]
                /\ pc' = [pc EXCEPT ![c] = "push1"]
                /\ UNCHANGED <<result, tmp>>
                /\ run' = Return(c, [run EXCEPT ![c].entry = entry])
    /\ UNCHANGED <<remote, prs, nFaults, docVars>>

\* The entry is collected and saved, and CommitAndPush stages and commits it.
saveAndCommit(c) ==
    /\ pc[c] = "save"
    /\ IF run[c].path = "cli" /\ ParseJSONInputFails(run[c].input)
       THEN /\ CollectEntry(c, run, "save")
            /\ UNCHANGED <<clone, tmp>>
       ELSE LET entry == IF run[c].path = "cli" THEN ParseJSONInput(run[c].input)
                         ELSE run[c].entry
                old == FileOf(WorkingCopy(c), c)
                new == SaveEntryContent(old, entry, c)
            IN  /\ IF new = old
                   THEN /\ clone' = clone
                        /\ pc' = [pc EXCEPT ![c] = "idle"]
                        /\ IF run[c].path = "cli"
                           THEN /\ tmp' = [tmp EXCEPT ![c] = saveTempStandupContent(entry, c)]
                                /\ result' = [result EXCEPT ![c] =
                                                handleError(c, "commit",
                                                        <<"failed to push changes: ",
                                                          "no changes to commit", NL,
                                                          "Your standup has been saved to: ">>
                                                        \o TempPath(c, entry.Date))]
                           ELSE /\ tmp' = tmp
                                /\ result' = [result EXCEPT ![c] =
                                                handleError(c, "commit", <<"failed to push changes: ",
                                                                    "no changes to commit">>)]
                   ELSE /\ clone' = [clone EXCEPT ![c].heads[clone[c].cur] =
                                        Append(@, [file |-> c, doc |-> new, by |-> c])]
                        /\ pc' = [pc EXCEPT ![c] = "push1"]
                        /\ UNCHANGED <<result, tmp>>
                /\ run' = Return(c, [run EXCEPT ![c].entry = entry])
    /\ UNCHANGED <<remote, prs, nFaults, docVars>>

Pushed(c) ==
    /\ remote' = [remote EXCEPT ![clone[c].cur] = WorkingCopy(c)]
    /\ clone' = [clone EXCEPT ![c].orig[clone[c].cur] = WorkingCopy(c)]
    /\ pc' = [pc EXCEPT ![c] = "idle"]
    /\ result' = [result EXCEPT ![c] = Succeeded(c, 0, <<>>)]
    /\ tmp' = tmp

\* The variant of the first push without the recovery: a rejected push is
\* final.
pushFirstNoRecovery(c, f, declined) ==
    /\ pc[c] = "push1"
    /\ declined => f
    /\ Fault(f)
    /\ IF ~f /\ PushAccepted(WorkingCopy(c), remote[clone[c].cur])
       THEN Pushed(c)
       ELSE /\ CommitAndPushFailed(c, "push", <<"failed to push to remote: ", "exit status 128">>)
            /\ UNCHANGED <<remote, clone>>
    /\ run' = Return(c, [run EXCEPT ![c].faulted = @ \/ f, ![c].nPush = @ + 1])
    /\ UNCHANGED <<prs, docVars>>

\* What git push prints when it fails: the connection failed, the host
\* declined the push (a hook, a protected branch), or the push was rejected
\* because the shared branch holds commits that the local one lacks.
pushOutput(f, declined) ==
    IF ~f THEN "! [rejected] (non-fast-forward)"
    ELSE IF declined THEN "! [remote rejected] (pre-receive hook declined)"
    ELSE "fatal: unable to access"

\* The test of pushWithUpstream on the output of the failed push.
startsRecovery(output) ==
    output \in {"! [rejected] (non-fast-forward)", "! [remote rejected] (pre-receive hook declined)"}

\* pushWithUpstream: the first push.  A failure whose output holds neither
\* "non-fast-forward" nor "rejected" ends the invocation; any other starts the
\* recovery.  declined says that the failure f is the host declining the push.
pushFirst(c, f, declined) ==
    /\ pc[c] = "push1"
    /\ declined => f
    /\ Fault(f)
    /\ IF f /\ ~startsRecovery(pushOutput(f, declined))
       THEN /\ CommitAndPushFailed(c, "push", <<"failed to push to remote: ", "exit status 128">>)
            /\ UNCHANGED <<remote, clone>>
       ELSE IF PushAccepted(WorkingCopy(c), remote[clone[c].cur])
       THEN Pushed(c)
       ELSE /\ pc' = [pc EXCEPT ![c] = "retryFetch"]
            /\ UNCHANGED <<remote, clone, result, tmp>>
    /\ run' = Return(c, [run EXCEPT ![c].faulted = @ \/ f, ![c].nPush = @ + 1])
    /\ UNCHANGED <<prs, docVars>>

\* pushWithUpstream: fetchAll after the rejection
retryFetch(c, f) ==
    /\ pc[c] = "retryFetch"
    /\ Fault(f)
    /\ IF f
       THEN /\ CommitAndPushFailed(c, "push", <<"failed to push to remote: ",
                                                    "failed to fetch during push retry">>)
            /\ clone' = clone
       ELSE /\ clone' = [clone EXCEPT ![c] = fetchAll(clone[c])]
            /\ pc' = [pc EXCEPT ![c] = "retryPull"]
            /\ UNCHANGED <<result, tmp>>
    /\ run' = Return(c, [run EXCEPT ![c].faulted = @ \/ f, ![c].nRecover = @ + 1])
    /\ UNCHANGED <<remote, prs, docVars>>

\* What git prints when the pull with rebase fails, and when the merge does.
pullOutput(f) == IF f THEN "fatal: unable to access" ELSE "CONFLICT: could not apply"

mergeOutput(local, tracked) ==
    IF CommonLen(local, tracked) = 0 THEN "fatal: refusing to merge unrelated histories"
    ELSE "CONFLICT: automatic merge failed"

syncFailed(pullOut, mergeOut) ==
    <<"failed to push to remote: ", "failed to sync before push (tried rebase and merge): ",
      "pull error: ", pullOut, ", merge error: ", "exit status 1", " (output: ", mergeOut, ")">>

\* The variant of the recovery without the fallback: a failed pull with rebase
\* ends the invocation with the error of the pull alone.
retryPullNoMerge(c, f) ==
    /\ pc[c] = "retryPull"
    /\ Fault(f)
    /\ LET b == clone[c].cur
           local == clone[c].heads[b]
           pullErr == f \/ Conflict(local, remote[b])
       IN  IF ~pullErr
           THEN /\ clone' = [clone EXCEPT ![c].orig[b] = remote[b],
                                          ![c].heads[b] = Replay(local, remote[b])]
                /\ pc' = [pc EXCEPT ![c] = "push2"]
                /\ UNCHANGED <<result, tmp>>
           ELSE /\ CommitAndPushFailed(c, "push", <<"failed to push to remote: ",
                                                    "failed to sync before push: ",
                                                    "pull error: ", pullOutput(f)>>)
                /\ clone' = clone
    /\ run' = Return(c, [run EXCEPT ![c].faulted = @ \/ f])
    /\ UNCHANGED <<remote, prs, docVars>>

\* pushWithUpstream: git pull --rebase, and on its failure git rebase --abort
\* and git merge origin/<branch>
retryPull(c, f) ==
    /\ pc[c] = "retryPull"
    /\ Fault(f)
    /\ LET b == clone[c].cur
           local == clone[c].heads[b]
           pullErr == f \/ Conflict(local, remote[b])
           tracked == clone[c].orig[b]
           mergeErr == Conflict(local, tracked) \/ CommonLen(local, tracked) = 0
       IN  IF ~pullErr
           THEN /\ clone' = [clone EXCEPT ![c].orig[b] = remote[b],
                                          ![c].heads[b] = Replay(local, remote[b])]
                /\ pc' = [pc EXCEPT ![c] = "push2"]
                /\ UNCHANGED <<result, tmp>>
           ELSE IF ~mergeErr
           THEN /\ clone' = [clone EXCEPT ![c].heads[b] = Replay(local, tracked)]
                /\ pc' = [pc EXCEPT ![c] = "push2"]
                /\ UNCHANGED <<result, tmp>>
           ELSE /\ CommitAndPushFailed(c, "push", syncFailed(pullOutput(f), mergeOutput(local, tracked)))
                /\ clone' = clone
    /\ run' = Return(c, [run EXCEPT ![c].faulted = @ \/ f])
    /\ UNCHANGED <<remote, prs, docVars>>

\* The variant of the second push that starts the recovery again when the
\* push is rejected.
pushSecondAndRetry(c, f) ==
    /\ pc[c] = "push2"
    /\ Fault(f)
    /\ IF ~f /\ PushAccepted(WorkingCopy(c), remote[clone[c].cur])
       THEN Pushed(c)
       ELSE /\ pc' = [pc EXCEPT ![c] = "retryFetch"]
            /\ UNCHANGED <<remote, clone, result, tmp>>
    /\ run' = Return(c, [run EXCEPT ![c].faulted = @ \/ f, ![c].nPush = @ + 1])
    /\ UNCHANGED <<prs, docVars>>

\* pushWithUpstream: the second push, whose failure is final
pushSecond(c, f) ==
    /\ pc[c] = "push2"
    /\ Fault(f)
    /\ IF ~f /\ PushAccepted(WorkingCopy(c), remote[clone[c].cur])
       THEN Pushed(c)
       ELSE /\ CommitAndPushFailed(c, "push", <<"failed to push to remote: ",
                                                    "push failed after sync">>)
            /\ UNCHANGED <<remote, clone>>
    /\ run' = Return(c, [run EXCEPT ![c].faulted = @ \/ f, ![c].nPush = @ + 1])
    /\ UNCHANGED <<prs, docVars>>

----------------------------------------------------------------------------
(* The merge operation: RunMergeDailyStandup *)

\* The merge has succeeded; warning is what the cleanup printed, if anything.
Merged(pr, warning) == [status |-> "ok", step |-> "", err |-> warning, pr |-> pr, body |-> <<>>]

\* validateMergeEnvironment
validateMergeEnvironment(c, f) ==
    /\ pc[c] = "idle"
    /\ RunsStarted < MaxRuns
    /\ Fault(f)
    /\ IF f
       THEN /\ pc' = pc
            /\ result' = [result EXCEPT ![c] = Failure("validate", <<"GitHub CLI not authenticated">>)]
       ELSE /\ pc' = [pc EXCEPT ![c] = "mergeQuery"]
            /\ result' = [result EXCEPT ![c] = NoResult]
    /\ run' = Return(c, [run EXCEPT ![c] =
                 [IdleRun EXCEPT !.n = run[c].n + 1,
                                 !.workflow = "merge",
                                 !.faulted = f,
                                 !.remoteDailyAtStart = remote[Daily] # <<>>]])
    /\ UNCHANGED <<remote, prs, clone, tmp, docVars>>

\* findAndMergePR: the query for the pull request of today's branch
findPR(c, f) ==
    /\ pc[c] = "mergeQuery"
    /\ Fault(f)
    /\ IF ~f /\ OpenPRs(Daily) # {}
       THEN /\ pc' = [pc EXCEPT ![c] = "mergeCall"]
            /\ result' = result
       ELSE /\ pc' = [pc EXCEPT ![c] = "idle"]
            /\ result' = [result EXCEPT ![c] =
                            Failure("find", <<"no pull request found for today's standups">>)]
    /\ run' = Return(c, [run EXCEPT ![c].faulted = @ \/ f,
                                    ![c].prExists = ~f /\ OpenPRs(Daily) # {},
                                    ![c].prNumber = IF ~f /\ OpenPRs(Daily) # {}
                                                    THEN Max(OpenPRs(Daily)) ELSE 0])
    /\ UNCHANGED <<remote, prs, clone, tmp, docVars>>

\* The host merges an open pull request whose branch still exists and applies
\* to main.
HostMerges(n) ==
    /\ prs[n].open
    /\ remote[prs[n].head] # <<>>
    /\ remote[MainBranch] # <<>>
    /\ CommonLen(remote[prs[n].head], remote[MainBranch]) > 0
    /\ ~Conflict(remote[prs[n].head], remote[MainBranch])

\* gh pr merge --delete-branch in the clone it runs in: it leaves the clone
\* alone, or deletes the local branch after leaving it for main.
ghDeleteLocalBranch(cl, branch) ==
    IF cl.heads[branch] = <<>> THEN cl
    ELSE IF cl.cur # branch THEN [cl EXCEPT !.heads[branch] = <<>>]
    ELSE IF cl.heads[MainBranch] # <<>>
    THEN [cl EXCEPT !.heads[branch] = <<>>, !.cur = MainBranch]
    ELSE cl

\* findAndMergePR: MergePullRequestByNumber (gh pr merge <number> --squash
\* --delete-branch).  The squash puts the changes of the branch on main.
MergePullRequestByNumber(c, f, deletesLocal) ==
    /\ pc[c] = "mergeCall"
    /\ f => ~deletesLocal
    /\ Fault(f)
    /\ LET n == run[c].prNumber
       IN  IF ~f /\ HostMerges(n)
           THEN /\ prs' = [prs EXCEPT ![n].open = FALSE]
                /\ remote' = [remote EXCEPT ![MainBranch] = Replay(remote[prs[n].head], @),
                                            ![prs[n].head] = <<>>]
                /\ clone' = IF deletesLocal
                            THEN [clone EXCEPT ![c] = ghDeleteLocalBranch(@, prs[n].head)]
                            ELSE clone
                /\ pc' = [pc EXCEPT ![c] = "cleanup"]
                /\ result' = result
           ELSE /\ pc' = [pc EXCEPT ![c] = "idle"]
                /\ result' = [result EXCEPT ![c] =
                                Failure("merge", <<"failed to merge pull request: ">>)]
                /\ UNCHANGED <<prs, remote, clone>>
    /\ run' = Return(c, [run EXCEPT ![c].faulted = @ \/ f, ![c].nMergeCalls = @ + 1])
    /\ UNCHANGED <<tmp, docVars>>

\* git checkout main: the local branch, or a new one from origin/main.
SwitchToMainBranch(cl) ==
    [cl EXCEPT !.cur = MainBranch,
               !.heads[MainBranch] = IF @ # <<>> THEN @ ELSE cl.orig[MainBranch]]

\* The variant of RunMergeDailyStandup that returns the error of the cleanup.
cleanupAfterMergeFatal(c, f) ==
    /\ pc[c] = "cleanup"
    /\ f => (clone[c].heads[MainBranch] # <<>> \/ clone[c].orig[MainBranch] # <<>>)
    /\ Fault(f)
    /\ pc' = [pc EXCEPT ![c] = "idle"]
    /\ run' = Return(c, [run EXCEPT ![c].faulted = @ \/ f])
    /\ IF clone[c].heads[MainBranch] = <<>> /\ clone[c].orig[MainBranch] = <<>>
       THEN /\ clone' = clone
            /\ result' = [result EXCEPT ![c] =
                            Failure("cleanup", <<"could not switch to main branch: ">>)]
       ELSE IF f
       THEN /\ clone' = [clone EXCEPT ![c] = SwitchToMainBranch(@)]
            /\ result' = [result EXCEPT ![c] =
                            Failure("cleanup", <<"could not sync repository: ">>)]
       ELSE /\ clone' = [clone EXCEPT ![c] = resetToRemote(fetchAll(SwitchToMainBranch(@)))]
            /\ result' = [result EXCEPT ![c] = Merged(run[c].prNumber, <<>>)]
    /\ UNCHANGED <<remote, prs, tmp, docVars>>

\* cleanupAfterMerge, whose error RunMergeDailyStandup prints as a warning
cleanupAfterMerge(c, f) ==
    /\ pc[c] = "cleanup"
    /\ f => (clone[c].heads[MainBranch] # <<>> \/ clone[c].orig[MainBranch] # <<>>)
    /\ Fault(f)
    /\ pc' = [pc EXCEPT ![c] = "idle"]
    /\ run' = Return(c, [run EXCEPT ![c].faulted = @ \/ f])
    /\ IF clone[c].heads[MainBranch] = <<>> /\ clone[c].orig[MainBranch] = <<>>
       THEN /\ clone' = clone
            /\ result' = [result EXCEPT ![c] =
                            Merged(run[c].prNumber, <<"Warning during cleanup: ",
                                                      "could not switch to main branch: ">>)]
       ELSE IF f
       THEN /\ clone' = [clone EXCEPT ![c] = SwitchToMainBranch(@)]
            /\ result' = [result EXCEPT ![c] =
                            Merged(run[c].prNumber, <<"Warning during cleanup: ",
                                                      "could not sync repository: ">>)]
       ELSE /\ clone' = [clone EXCEPT ![c] = resetToRemote(fetchAll(SwitchToMainBranch(@)))]
            /\ result' = [result EXCEPT ![c] = Merged(run[c].prNumber, <<>>)]
    /\ UNCHANGED <<remote, prs, tmp, docVars>>

----------------------------------------------------------------------------
(* The team's repository as the runs find it *)

\* A personal log of an earlier day, merged into main before today.
SeedEntry == [Date |-> Yesterday, Yesterday |-> <<"did x">>, Today |-> <<>>, Blockers |-> <<"None">>]

SeedCommit == [file |-> "Bob", doc |-> SaveEntryContent(NoFile, SeedEntry, "Bob"), by |-> "Bob"]

SeededRepository == [b \in Branches |-> IF b = MainBranch THEN <<SeedCommit>> ELSE <<>>]

FreshClone(repository) == [cur |-> MainBranch, heads |-> repository, orig |-> repository]

DocQuiet ==
    /\ log = NoFile
    /\ saved = NoEntry
    /\ nSaves = 0

GitQuiet ==
    /\ remote = NoBranches
    /\ clone = [c \in Contributors |-> FreshClone(NoBranches)]
    /\ prs = <<>>
    /\ pc = [c \in Contributors |-> "idle"]
    /\ run = [c \in Contributors |-> IdleRun]
    /\ result = [c \in Contributors |-> NoResult]
    /\ tmp = [c \in Contributors |-> NoFile]
    /\ nFaults = 0

GitInit ==
    /\ DocQuiet
    /\ remote \in {SeededRepository, NoBranches}
    /\ clone = [c \in Contributors |-> FreshClone(remote)]
    /\ prs = <<>>
    /\ pc = [c \in Contributors |-> "idle"]
    /\ run = [c \in Contributors |-> IdleRun]
    /\ result = [c \in Contributors |-> NoResult]
    /\ tmp = [c \in Contributors |-> NoFile]
    /\ nFaults = 0

Paths == {"cli", "rpc"}

\* The CLI writes text unless --output json is given (the flag is empty by
\* default); the RPC handlers pass json to the steps they share with the CLI,
\* which silences the progress lines.
OutputFormatOf(path) == IF path = "cli" THEN "" ELSE "json"

OutputFormats == {"", "json"}

Workflows == {"pr", "direct"}

PRNext ==
    \/ \E c \in Contributors, path \in Paths, input \in Inputs, f \in BOOLEAN :
          Start(c, "pr", path, OutputFormatOf(path), input, f)
    \/ \E c \in Contributors, f \in BOOLEAN : SyncRepository(c, f)
    \/ \E c \in Contributors, f \in BOOLEAN : ensureMainBranch(c, f)
    \/ \E c \in Contributors, f \in BOOLEAN : pushMainBranch(c, f)
    \/ \E c \in Contributors, f \in BOOLEAN, merges \in BOOLEAN : commitOnDailyBranch(c, f, merges)
    \/ \E c \in Contributors, f \in BOOLEAN : PushBranch(c, f)
    \/ \E c \in Contributors, f \in BOOLEAN : PRExistsForBranch(c, f)
    \/ \E c \in Contributors, f \in BOOLEAN : handlePullRequest(c, f)

SpecPR == GitInit /\ [][PRNext]_vars

DirectNext ==
    \/ \E c \in Contributors, path \in Paths, input \in Inputs, f \in BOOLEAN :
          Start(c, "direct", path, OutputFormatOf(path), input, f)
    \/ \E c \in Contributors, f \in BOOLEAN : SyncRepository(c, f)
    \/ \E c \in Contributors : saveAndCommit(c)
    \/ \E c \in Contributors, f \in BOOLEAN, declined \in BOOLEAN : pushFirst(c, f, declined)
    \/ \E c \in Contributors, f \in BOOLEAN : retryFetch(c, f)
    \/ \E c \in Contributors, f \in BOOLEAN : retryPull(c, f)
    \/ \E c \in Contributors, f \in BOOLEAN : pushSecond(c, f)

SpecDirect == GitInit /\ [][DirectNext]_vars

\* The CLI in either output format and either workflow.
OutputNext ==
    \/ \E c \in Contributors, workflow \in Workflows, outputFormat \in OutputFormats,
          input \in Inputs, f \in BOOLEAN :
          Start(c, workflow, "cli", outputFormat, input, f)
    \/ \E c \in Contributors, f \in BOOLEAN : SyncRepository(c, f)
    \/ \E c \in Contributors, f \in BOOLEAN : ensureMainBranch(c, f)
    \/ \E c \in Contributors, f \in BOOLEAN : pushMainBranch(c, f)
    \/ \E c \in Contributors, f \in BOOLEAN, merges \in BOOLEAN : commitOnDailyBranch(c, f, merges)
    \/ \E c \in Contributors, f \in BOOLEAN : PushBranch(c, f)
    \/ \E c \in Contributors, f \in BOOLEAN : PRExistsForBranch(c, f)
    \/ \E c \in Contributors, f \in BOOLEAN : handlePullRequest(c, f)
    \/ \E c \in Contributors : saveAndCommit(c)
    \/ \E c \in Contributors, f \in BOOLEAN, declined \in BOOLEAN : pushFirst(c, f, declined)
    \/ \E c \in Contributors, f \in BOOLEAN : retryFetch(c, f)
    \/ \E c \in Contributors, f \in BOOLEAN : retryPull(c, f)
    \/ \E c \in Contributors, f \in BOOLEAN : pushSecond(c, f)

SpecOutput == GitInit /\ [][OutputNext]_vars

MergeNext ==
    \/ \E c \in Contributors, f \in BOOLEAN : validateMergeEnvironment(c, f)
    \/ \E c \in Contributors, f \in BOOLEAN : findPR(c, f)
    \/ \E c \in Contributors, f \in BOOLEAN, deletesLocal \in BOOLEAN :
          MergePullRequestByNumber(c, f, deletesLocal)
    \/ \E c \in Contributors, f \in BOOLEAN : cleanupAfterMerge(c, f)

PRMergeNext == PRNext \/ MergeNext

\* The pull-request workflow and the merge operation, run by the contributors.
SpecMerge == GitInit /\ [][PRMergeNext]_vars

----------------------------------------------------------------------------
(* SyncRepository in a clone of any state *)

SyncUser == "Alice"

SyncEntry == [Date |-> Today, Yesterday |-> <<"did x">>, Today |-> <<>>, Blockers |-> <<"None">>]

\* The daily branch as pushed, and with one more commit that was not pushed.
PushedDaily ==
    <<SeedCommit, [file |-> SyncUser, doc |-> SaveEntryContent(NoFile, SyncEntry, SyncUser),
                   by |-> SyncUser]>>

UnpushedDaily ==
    Append(PushedDaily,
           [file |-> SyncUser,
            doc |-> SaveEntryContent(FileOf(PushedDaily, SyncUser),
                                     [SyncEntry EXCEPT !.Blockers = <<"waiting">>], SyncUser),
            by |-> SyncUser])

\* The shared repository: empty, with main only, or with the daily branch.
SyncRemotes ==
    { r \in [Branches -> {<<>>, <<SeedCommit>>, PushedDaily}] :
        /\ r[MainBranch] \in {<<>>, <<SeedCommit>>}
        /\ r[Daily] \in {<<>>, PushedDaily}
        /\ r[Daily] # <<>> => r[MainBranch] # <<>> }

\* The clones SyncRepository may find: a checked-out branch exists unless the
\* clone is empty, a remote-tracking branch is what an earlier fetch or push
\* has left of the shared branch (the shared branch may be gone since), and a
\* detached HEAD is at the first commit.
SyncClones ==
    { cl \in [cur : Branches \cup {Detached},
              heads : [Branches \cup {Detached} ->
                          {<<>>, <<SeedCommit>>, PushedDaily, UnpushedDaily}],
              orig : [Branches -> {<<>>, <<SeedCommit>>, PushedDaily}]] :
        /\ cl.heads[MainBranch] \in {<<>>, <<SeedCommit>>}
        /\ cl.heads[Daily] \in {<<>>, PushedDaily, UnpushedDaily}
        /\ cl.heads[Detached] = IF cl.cur = Detached THEN <<SeedCommit>> ELSE <<>>
        /\ cl.orig[MainBranch] \in {<<>>, <<SeedCommit>>}
        /\ cl.orig[Daily] \in {<<>>, PushedDaily}
        /\ cl.orig[Daily] # <<>> => cl.orig[MainBranch] # <<>>
        /\ cl.heads[Daily] # <<>> => cl.orig[MainBranch] # <<>>
        /\ cl.heads[MainBranch] # <<>> => cl.orig[MainBranch] # <<>>
        /\ cl.cur = Detached => cl.orig[MainBranch] # <<>>
        /\ (cl.cur # Detached /\ cl.heads[cl.cur] = <<>>)
              => (cl.cur = MainBranch /\ isEmptyRepository(cl)) }

\* A run of either workflow that has passed validateEnvironment.
SyncInit ==
    /\ DocQuiet
    /\ remote \in SyncRemotes
    /\ \E cl \in SyncClones :
          /\ \A b \in Branches : cl.orig[b] # <<>> => (remote[b] = <<>> \/ remote[b] = cl.orig[b])
          /\ remote[MainBranch] = <<>> => isEmptyRepository(cl)
          /\ clone = [c \in Contributors |-> IF c = SyncUser THEN cl ELSE FreshClone(NoBranches)]
    /\ prs = <<>>
    /\ pc = [c \in Contributors |-> IF c = SyncUser THEN "sync" ELSE "idle"]
    /\ \E workflow \in Workflows :
          run = [c \in Contributors |->
                   IF c = SyncUser
                   THEN [IdleRun EXCEPT !.n = 1, !.workflow = workflow, !.path = "cli",
                                        !.input = [Yesterday |-> <<"did x">>, Today |-> <<>>,
                                                   Blockers |-> <<"waiting">>]]
                   ELSE IdleRun]
    /\ result = [c \in Contributors |-> NoResult]
    /\ tmp = [c \in Contributors |-> NoFile]
    /\ nFaults = 0

SyncNext == \E c \in Contributors, f \in BOOLEAN : SyncRepository(c, f)

SpecSync == SyncInit /\ [][SyncNext]_vars

----------------------------------------------------------------------------
(* The calendar of package time, as far as the program uses it *)

IsLeap(y) == (y % 4 = 0 /\ y % 100 # 0) \/ y % 400 = 0

DaysIn(y, m) ==
    CASE m \in {4, 6, 9, 11} -> 30
      [] m = 2 -> IF IsLeap(y) THEN 29 ELSE 28
      [] OTHER -> 31

\* time.Date brings a day out of the range of its month into range by moving
\* to the months before or after.
RECURSIVE NormalizeDate(_, _, _, _)
NormalizeDate(y, m, d, h) ==
    IF d < 1
    THEN LET py == IF m = 1 THEN y - 1 ELSE y
             pm == IF m = 1 THEN 12 ELSE m - 1
         IN  NormalizeDate(py, pm, d + DaysIn(py, pm), h)
    ELSE IF d > DaysIn(y, m)
    THEN NormalizeDate(IF m = 12 THEN y + 1 ELSE y, IF m = 12 THEN 1 ELSE m + 1, d - DaysIn(y, m), h)
    ELSE [year |-> y, month |-> m, day |-> d, hour |-> h]

\* t.AddDate(0, 0, days)
AddDate(t, days) == NormalizeDate(t.year, t.month, t.day + days, t.hour)

RECURSIVE DaysBeforeYear(_)
DaysBeforeYear(y) ==
    IF y <= 2023 THEN 0 ELSE DaysBeforeYear(y - 1) + (IF IsLeap(y - 1) THEN 366 ELSE 365)

RECURSIVE DaysBeforeMonth(_, _)
DaysBeforeMonth(y, m) == IF m <= 1 THEN 0 ELSE DaysBeforeMonth(y, m - 1) + DaysIn(y, m - 1)

\* The days from 1 January 2023, a Sunday, to the date of t.
DayNumber(t) == DaysBeforeYear(t.year) + DaysBeforeMonth(t.year, t.month) + t.day - 1

Sunday == 0

Monday == 1

\* t.Weekday(): Sunday is 0.
Weekday(t) == DayNumber(t) % 7

----------------------------------------------------------------------------
(* The name of the daily branch, from the clock of the contributor *)

\* The local times time.Now() returns in the runs: days around the ends of a
\* month and of a year, early and late in the day.
Times ==
    {t \in [year : {2024, 2025}, month : {1, 11, 12}, day : {1, 2, 12, 31}, hour : {0, 23}] :
        t.day <= DaysIn(t.year, t.month)}

Digits == <<"0", "1", "2", "3", "4", "5", "6", "7", "8", "9">>

\* Two digits of a number, with a leading zero.
Pad2(n) == <<Digits[((n \div 10) % 10) + 1], Digits[(n % 10) + 1]>>

\* The variant of the layout that also writes the hour.
FormatDateAndHour(t) == Pad2(t.year \div 100) \o Pad2(t.year % 100) \o <<"-">> \o Pad2(t.month) \o <<"-">> \o Pad2(t.day)
                        \o <<"T">> \o Pad2(t.hour)

\* t.Format("2006-01-02")
FormatDate(t) == Pad2(t.year \div 100) \o Pad2(t.year % 100) \o <<"-">> \o Pad2(t.month) \o <<"-">> \o Pad2(t.day)

\* fmt.Sprintf("standup/%s", ...) of createOrUpdateStandupPR, with the date of
\* the entry, and of RunMergeDailyStandup, with today.
submitBranchName(entryDate) == <<"standup/">> \o FormatDate(entryDate)

mergeBranchName(today) == <<"standup/">> \o FormatDate(today)

\* A run takes the time and names the branch it will work on.
nameBranch(c, workflow, t) ==
    /\ pc[c] = "idle"
    /\ run[c].n = 0
    /\ run' = [run EXCEPT ![c].n = 1,
                          ![c].workflow = workflow,
                          ![c].now = t,
                          ![c].branchName = IF workflow = "merge" THEN mergeBranchName(t)
                                            ELSE submitBranchName(t)]
    /\ UNCHANGED <<remote, prs, clone, pc, result, tmp, nFaults, docVars>>

BranchNameNext ==
    \E c \in Contributors, workflow \in {"pr", "merge"}, t \in Times : nameBranch(c, workflow, t)

BranchNameInit == DocQuiet /\ GitQuiet

SpecBranchName == BranchNameInit /\ [][BranchNameNext]_vars

----------------------------------------------------------------------------
(* One personal log, written by SaveEntry calls *)

LogUser == "Alice"

SaveEntry(entry) ==
    /\ nSaves < MaxSaves
    /\ log' = SaveEntryContent(log, entry, LogUser)
    /\ saved' = entry
    /\ nSaves' = nSaves + 1
    /\ UNCHANGED gitVars

LogNext == \E entry \in Entries : SaveEntry(entry)

LogInit ==
    /\ log = NoFile
    /\ saved = NoEntry
    /\ nSaves = 0
    /\ GitQuiet

SpecLog == LogInit /\ [][LogNext]_vars

----------------------------------------------------------------------------
(* An existing personal log of any shape, merged into by SaveEntry calls *)

IndentedHeadingLine == <<" ">> \o HeadingLine(2)

LineAlphabet ==
    { HeaderLine("Alice"), HeadingLine(1), HeadingLine(2),
      IndentedHeadingLine, Separator, <<>>, <<"text">> }

LineSeqs == UNION {[1..n -> LineAlphabet] : n \in 0..MaxLines}

ExistingDocs ==
    {JoinLines(ls) : ls \in LineSeqs} \cup {JoinLines(ls) \o <<NL>> : ls \in LineSeqs}

DocInit ==
    /\ log \in ExistingDocs
    /\ saved = NoEntry
    /\ nSaves = 1      \* the existing document counts as one earlier write
    /\ GitQuiet

SpecDoc == DocInit /\ [][LogNext]_vars

----------------------------------------------------------------------------
(* Manager.SaveEntry on a file system that may fail *)

\* What the file system does in one call: nothing wrong, MkdirAll fails,
\* ReadFile fails for a reason other than a missing file, WriteFile fails.
FsFaults == {"none", "mkdir", "read", "write"}

\* The file after a WriteFile that failed: os.WriteFile opens the file with
\* O_CREATE and O_TRUNC and then writes, so the file is as it was when the
\* open failed and is empty when the write failed after it.
AfterFailedWrite(file) == {file, <<>>}

ManagerSaveEntry(entry, fsFault, after) ==
    /\ nSaves < MaxSaves
    /\ nSaves' = nSaves + 1
    /\ run' = [run EXCEPT ![LogUser].n = @ + 1, ![LogUser].entry = entry,
                          ![LogUser].fsFault = fsFault]
    /\ CASE fsFault = "mkdir" ->
               /\ result' = [result EXCEPT ![LogUser] =
                     Failure("save", <<"failed to create stand-ups directory">>)]
               /\ UNCHANGED <<log, saved>>
         [] fsFault = "read" ->
               /\ result' = [result EXCEPT ![LogUser] =
                     Failure("save", <<"failed to read existing file">>)]
               /\ UNCHANGED <<log, saved>>
         [] fsFault = "write" ->
               /\ result' = [result EXCEPT ![LogUser] = Failure("save", <<"write error">>)]
               /\ after \in AfterFailedWrite(log)
               /\ log' = after
               /\ UNCHANGED saved
         [] OTHER ->
               /\ result' = [result EXCEPT ![LogUser] = Success(0, <<>>)]
               /\ after = log
               /\ log' = SaveEntryContent(log, entry, LogUser)
               /\ saved' = entry
    /\ UNCHANGED <<remote, prs, clone, pc, tmp, nFaults>>

StoreNext ==
    \E entry \in Entries, fsFault \in FsFaults, after \in {log, <<>>} :
        ManagerSaveEntry(entry, fsFault, after)

SpecStore == LogInit /\ [][StoreNext]_vars

----------------------------------------------------------------------------
(* An entry made from each kind of input and written to a new personal log *)

\* What a contributor types or sends: lists of up to two items, and a blockers
\* text that is absent or empty, blank, or a text with or without spaces
\* around it.
EntryInputs ==
    [Yesterday : {<<>>, <<"did x">>, <<"did x", "did y">>, <<"did y", "did x">>},
     Today     : {<<>>, <<"did x">>, <<"did x", "did y">>, <<"did y", "did x">>},
     Blockers  : {<<>>, <<" ">>, <<" ", "\t">>, <<"waiting">>, <<" ", "waiting", " ">>}]

\* The prompt, the JSON input of the command line, the RPC tool.
Ways == {"prompt", "cli", "rpc"}

\* Manager.CollectEntry: the lists are the lines typed before an empty line and
\* the blockers line is trimmed before the default is set.
ManagerCollectEntry(input) ==
    [Date |-> Today, Yesterday |-> input.Yesterday, Today |-> input.Today,
     Blockers |-> DefaultBlockers(TrimSpace(input.Blockers))]

constructEntry(way, input) ==
    CASE way = "prompt" -> ManagerCollectEntry(input)
      [] way = "cli"    -> ParseJSONInput(input)
      [] way = "rpc"    -> handleSubmitStandupEntry(input)

submitEntry(way, input) ==
    /\ pc[LogUser] = "idle"
    /\ run[LogUser].n = 0
    /\ nSaves = 0
    /\ run' = [run EXCEPT ![LogUser].n = 1, ![LogUser].path = way, ![LogUser].input = input]
    /\ IF way = "cli" /\ ParseJSONInputFails(input)
       THEN /\ result' = [result EXCEPT ![LogUser] =
                            Failure("parse", <<"at least one of 'yesterday' or 'today' must have entries">>)]
            /\ UNCHANGED docVars
       ELSE /\ result' = [result EXCEPT ![LogUser] = Success(0, <<>>)]
            /\ saved' = constructEntry(way, input)
            /\ log' = SaveEntryContent(log, constructEntry(way, input), LogUser)
            /\ nSaves' = nSaves + 1
    /\ UNCHANGED <<remote, prs, clone, pc, tmp, nFaults>>

EntryNext == \E way \in Ways, input \in EntryInputs : submitEntry(way, input)

SpecEntry == LogInit /\ [][EntryNext]_vars

----------------------------------------------------------------------------
(* The suggestions of RunStandupSuggest: the last working day *)

\* The variant without the case of Sunday.
GetLastWorkingDayNoSunday(from) ==
    IF Weekday(from) = Monday THEN AddDate(from, -3) ELSE AddDate(from, -1)

GetLastWorkingDay(from) ==
    CASE Weekday(from) = Monday -> AddDate(from, -3)
      [] Weekday(from) = Sunday -> AddDate(from, -2)
      [] OTHER -> AddDate(from, -1)

\* The days on which a contributor may ask for suggestions: the first and the
\* last months of a leap year and of the year after it.
FromTimes ==
    {t \in [year : {2024, 2025}, month : {1, 2, 3, 12}, day : 1..31, hour : {0, 23}] :
        t.day <= DaysIn(t.year, t.month)}

\* RunStandupSuggest takes the time and asks for the commits since the last
\* working day.
lastWorkingDay(c, from) ==
    /\ pc[c] = "idle"
    /\ run[c].n = 0
    /\ run' = [run EXCEPT ![c].n = 1, ![c].workflow = "suggest", ![c].now = from,
                          ![c].since = GetLastWorkingDay(from)]
    /\ UNCHANGED <<remote, prs, clone, pc, result, tmp, nFaults, docVars>>

WorkingDayNext == \E from \in FromTimes : lastWorkingDay(LogUser, from)

SpecWorkingDay == BranchNameInit /\ [][WorkingDayNext]_vars

----------------------------------------------------------------------------
(* The suggestions of RunStandupSuggest: work items from commit subjects.   *)
(* A subject is the sequence of its bytes; a byte of ASCII is written as   *)
(* its character and a byte above 0x7F as its value.                       *)

UpperCase == <<"A", "B", "C", "D", "E", "F", "G", "H", "I", "J", "K", "L", "M", "N", "O", "P", "Q", "R", "S", "T", "U", "V", "W", "X", "Y", "Z">>

LowerCase == <<"a", "b", "c", "d", "e", "f", "g", "h", "i", "j", "k", "l", "m", "n", "o", "p", "q", "r", "s", "t", "u", "v", "w", "x", "y", "z">>

\* The bytes above 0x7F in the subjects: "0xC3", "0x89" is the capital E with
\* acute accent, "0xC3", "0xA9" the small one, and "0xEF", "0xBF", "0xBD" is
\* utf8.RuneError.
HighBytes == {"0xC3", "0x89", "0xA9", "0xEF", "0xBF", "0xBD"}

RuneError == <<"0xEF", "0xBF", "0xBD">>

ASCIIToLower(ch) ==
    IF \E i \in 1..26 : UpperCase[i] = ch
    THEN LowerCase[CHOOSE i \in 1..26 : UpperCase[i] = ch] ELSE ch

ASCIIToUpper(ch) ==
    IF \E i \in 1..26 : LowerCase[i] = ch
    THEN UpperCase[CHOOSE i \in 1..26 : LowerCase[i] = ch] ELSE ch

\* strings.Map(mapping, s) for a mapping of ASCII given by ascii and of the
\* letter E with acute accent given by its second byte: a byte that is no
\* character on its own comes out as utf8.RuneError.
RECURSIVE MapRunes(_, _, _)
MapRunes(s, upper, accented) ==
    IF s = <<>> THEN <<>>
    ELSE IF s[1] \notin HighBytes
    THEN <<IF upper THEN ASCIIToUpper(s[1]) ELSE ASCIIToLower(s[1])>> \o MapRunes(Tail(s), upper, accented)
    ELSE IF Len(s) >= 2 /\ s[1] = "0xC3" /\ s[2] \in {"0x89", "0xA9"}
    THEN <<"0xC3", accented>> \o MapRunes(SubSeq(s, 3, Len(s)), upper, accented)
    ELSE IF HasPrefix(s, RuneError)
    THEN RuneError \o MapRunes(SubSeq(s, 4, Len(s)), upper, accented)
    ELSE RuneError \o MapRunes(Tail(s), upper, accented)

\* strings.ToLower, strings.ToUpper
stringsToLower(s) == MapRunes(s, FALSE, "0xA9")

stringsToUpper(s) == MapRunes(s, TRUE, "0x89")

TrimSuffix(s, suffix) ==
    IF Len(s) >= Len(suffix) /\ SubSeq(s, Len(s) - Len(suffix) + 1, Len(s)) = suffix
    THEN SubSeq(s, 1, Len(s) - Len(suffix)) ELSE s

skipPatterns ==
    << <<"m", "e", "r", "g", "e">>,
       <<"w", "i", "p">>,
       <<"t", "m", "p">>,
       <<"t", "e", "m", "p">>,
       <<"f", "i", "x", " ", "t", "y", "p", "o">>,
       <<"u", "p", "d", "a", "t", "e", " ", "r", "e", "a", "d", "m", "e">>,
       <<"i", "n", "i", "t", "i", "a", "l", " ", "c", "o", "m", "m", "i", "t">> >>

prefixes ==
    << <<"f", "e", "a", "t", ":">>,
       <<"f", "i", "x", ":">>,
       <<"d", "o", "c", "s", ":">>,
       <<"s", "t", "y", "l", "e", ":">>,
       <<"r", "e", "f", "a", "c", "t", "o", "r", ":">>,
       <<"t", "e", "s", "t", ":">>,
       <<"c", "h", "o", "r", "e", ":">>,
       <<"p", "e", "r", "f", ":">>,
       <<"c", "i", ":">>,
       <<"b", "u", "i", "l", "d", ":">>,
       <<"r", "e", "v", "e", "r", "t", ":">> >>

isSkippableCommit(subject) ==
    \E i \in 1..Len(skipPatterns) : Contains(stringsToLower(subject), skipPatterns[i])

formatCommitAsWorkItem(commit) ==
    LET matching == {i \in 1..Len(prefixes) : HasPrefix(stringsToLower(commit.Subject), prefixes[i])}
        stripped == IF matching = {} THEN commit.Subject
                    ELSE TrimSpace(SubSeq(commit.Subject, Len(prefixes[Min(matching)]) + 1,
                                          Len(commit.Subject)))
        capitalised == IF Len(stripped) > 0
                       THEN stringsToUpper(SubSeq(stripped, 1, 1)) \o Tail(stripped)
                       ELSE stripped
    IN  TrimSuffix(capitalised, <<".">>)

\* The variant that keeps every item.
deduplicateItemsKeepAll(items) == items

RECURSIVE deduplicateLoop(_, _, _)
deduplicateLoop(items, seen, kept) ==
    IF items = <<>> THEN kept
    ELSE LET normalized == stringsToLower(TrimSpace(Head(items)))
         IN  IF normalized \in seen
             THEN deduplicateLoop(Tail(items), seen, kept)
             ELSE deduplicateLoop(Tail(items), seen \cup {normalized}, Append(kept, Head(items)))

deduplicateItems(items) == deduplicateLoop(items, {}, <<>>)

RECURSIVE collectItems(_)
collectItems(commits) ==
    IF commits = <<>> THEN <<>>
    ELSE LET item == formatCommitAsWorkItem(Head(commits))
         IN  (IF isSkippableCommit(Head(commits).Subject) \/ item = <<>> THEN <<>> ELSE <<item>>)
             \o collectItems(Tail(commits))

ExtractWorkItems(commits) == deduplicateItems(collectItems(commits))

\* The subjects of the commits in a history.
Subjects ==
    { <<"f", "i", "x", ":", " ", "R", "e", "s", "o", "l", "v", "e", " ", "l", "o", "g", "i", "n", " ", "t", "i", "m", "e", "o", "u", "t", " ", "i", "s", "s", "u", "e">>,
      <<"M", "e", "r", "g", "e", " ", "p", "u", "l", "l", " ", "r", "e", "q", "u", "e", "s", "t", " ", "#", "1", "2", "3">>,
      <<"f", "i", "x", ":", " ", "a", "b", ".">>,
      <<"F", "i", "x", ":", " ", "A", "b">>,
      <<"a", "b">>,
      <<"A", "B">>,
      <<" ", "a", "b">>,
      <<"a", "b", ".", ".">>,
      <<"f", "e", "a", "t", ":", " ", "f", "i", "x", ":", " ", "a", "b">>,
      <<"W", "i", "p", " ", "a", "b">>,
      <<"a", " ", "t", "e", "m", "p">>,
      <<"f", "e", "a", "t", ":">>,
      <<"0xC3", "0xA9", " ", "b">> }

MaxCommits == 2

CommitLists == UNION {[1..n -> [Subject : Subjects]] : n \in 0..MaxCommits}

\* RunStandupSuggest turns the commits found into the items it suggests.
extractWorkItems(c, commits) ==
    /\ pc[c] = "idle"
    /\ run[c].n = 0
    /\ run' = [run EXCEPT ![c].n = 1, ![c].workflow = "suggest", ![c].commits = commits,
                          ![c].items = ExtractWorkItems(commits)]
    /\ UNCHANGED <<remote, prs, clone, pc, result, tmp, nFaults, docVars>>

WorkItemsNext == \E commits \in CommitLists : extractWorkItems(LogUser, commits)

SpecWorkItems == BranchNameInit /\ [][WorkItemsNext]_vars

----------------------------------------------------------------------------
(* What the claims about the personal log speak of *)

IsDateHeading(line, d) == HasPrefix(line, <<"#", "#", " ">>) /\ Contains(line, <<DateFormat(d)>>)

HeadingIndexes(doc, d) ==
    LET lines == Split(doc)
    IN  {i \in 1..Len(lines) : IsDateHeading(lines[i], d)}

HeadingCount(doc, d) == Cardinality(HeadingIndexes(doc, d))

Occurrences(doc, sub) ==
    Cardinality({i \in 0..(Len(doc) - Len(sub)) : SubSeq(doc, i + 1, i + Len(sub)) = sub})

\* The lines of the section of date d: from its heading to the line before the
\* next delimiter or level-2 heading.
SectionLines(doc, d) ==
    LET lines == Split(doc)
        start == Min(HeadingIndexes(doc, d))
        ends  == {j \in (start + 1)..Len(lines) :
                    lines[j] = Separator \/ HasPrefix(lines[j], <<"#", "#", " ">>)}
        end   == IF ends = {} THEN Len(lines) + 1 ELSE Min(ends)
    IN  SubSeq(lines, start, end - 1)

PlainEntry(e) == e # NoEntry /\ e.Blockers \in {<<"None">>, <<"waiting">>}

HasItems(e) == e # NoEntry /\ (e.Yesterday # <<>> \/ e.Today # <<>>)

\* C1: after an entry with at least one item has been merged into any existing
\* document, once or several times in a row, the document holds exactly one
\* level-2 heading that carries the entry's date.
C1_ExactlyOneSectionForDate ==
    HasItems(saved) => HeadingCount(log, saved.Date) = 1

\* C2: after any sequence of SaveEntry writes that starts from a missing file,
\* the document holds at most one section heading per date.
C2_AtMostOneSectionPerDate ==
    log # NoFile => \A d \in Dates : HeadingCount(log, d) <= 1

\* C3: saving an entry for the later date into a document that holds a section
\* of the earlier date keeps that section line for line, and puts the new
\* section before it, directly after the header and one blank line.
C3_LaterDateKeepsPriorSection ==
    [][ ( /\ log # NoFile
          /\ HeadingCount(log, 1) = 1
          /\ HeadingCount(log, 2) = 0
          /\ PlainEntry(saved)
          /\ PlainEntry(saved')
          /\ saved'.Date = 2 )
        => ( /\ HeadingCount(log', 1) = 1
             /\ SectionLines(log', 1) = SectionLines(log, 1)
             /\ Split(log')[3] = HeadingLine(2)
             /\ Min(HeadingIndexes(log', 2)) < Min(HeadingIndexes(log', 1)) ) ]_vars

\* C4: merging an entry for date D into an existing non-empty document, with or
\* without a header line, never removes the section of another date.
C4_OtherDateSectionsSurvive ==
    [][ ( /\ log # NoFile
          /\ log # <<>>
          /\ PlainEntry(saved') )
        => \A d \in Dates :
             (d # saved'.Date /\ HeadingCount(log, d) > 0) => HeadingCount(log', d) > 0 ]_vars

----------------------------------------------------------------------------
(* What the claims about the workflows speak of *)

HasTodaySection(h, userName) ==
    FileOf(h, userName) # NoFile /\ HeadingCount(FileOf(h, userName), Today) >= 1

\* C6: contributor a has run the pull-request workflow once, with success, and
\* contributor b then ran it once from a clone without the daily branch while
\* the shared repository already had it, nothing failing in the environment:
\* b's run succeeded and the daily branch of the shared repository holds the
\* sections of both for today.
C6_SecondContributorJoinsDailyBranch ==
    \A a, b \in Contributors :
        ( /\ a # b
          /\ nFaults = 0
          /\ run[a].n = 1 /\ pc[a] = "idle" /\ result[a].status = "ok"
          /\ run[b].n = 1 /\ pc[b] = "idle" /\ result[b].status # "none"
          /\ result[b].step # "parse"
          /\ run[b].remoteDailyAtStart
          /\ ~run[b].hadLocal )
        => ( /\ result[b].status = "ok"
             /\ HasTodaySection(remote[Daily], a)
             /\ HasTodaySection(remote[Daily], b) )

\* C7: the daily branch never has more than one pull request, and a run that
\* reaches the upsert while the branch has an open pull request, nothing having
\* failed in the environment, has found that pull request and replaces its body
\* instead of creating another.
C7_OnePullRequestUpdatedByLaterRuns ==
    /\ Cardinality({n \in 1..Len(prs) : prs[n].head = Daily}) <= 1
    /\ \A c \in Contributors :
          (pc[c] = "prUpsert" /\ ~run[c].faulted /\ OpenPRs(Daily) # {}) => run[c].prExists

\* The body expected of a working copy: for each personal log in file-name
\* order that has a section for today, one block with the text of the section.
ExpectedBlock(h, userName) ==
    IF HasTodaySection(h, userName)
    THEN <<"#", "#", " ", ToLower(userName), NL, NL>>
         \o TrimSpace(JoinLines(Tail(SectionLines(FileOf(h, userName), Today))))
         \o <<NL, NL, "-", "-", "-", NL, NL>>
    ELSE <<>>

ExpectedBody(h) ==
    <<"# Daily Standups - ", DateFormat(Today), NL, NL>>
    \o ExpectedBlock(h, "Alice") \o ExpectedBlock(h, "Bob")
    \o <<NL, "To merge this PR, run: standup-bot --merge", NL>>

TodaySections(h) ==
    [u \in Users |-> IF HasTodaySection(h, u) THEN SectionLines(FileOf(h, u), Today) ELSE <<>>]

\* C8: the body a PR upsert wrote holds exactly one block for each personal log
\* of the working copy that has a section for today and none for a log without
\* one, it is the body expected of the working copy, and two upserts from
\* working copies with the same sections for today wrote the same body.
C8_BodyIsOneBlockPerTodaySection ==
    \A c \in Contributors :
        (run[c].workflow = "pr" /\ result[c].status = "ok") =>
            /\ \A u \in Users :
                  Occurrences(result[c].body, BlockHeading(u))
                    = IF HasTodaySection(WorkingCopy(c), u) THEN 1 ELSE 0
            /\ result[c].body = ExpectedBody(WorkingCopy(c))
            /\ \A d \in Contributors :
                  ( /\ run[d].workflow = "pr" /\ result[d].status = "ok"
                    /\ TodaySections(WorkingCopy(d)) = TodaySections(WorkingCopy(c)) )
                  => result[d].body = result[c].body

\* One upsert wrote a body from a working copy where Bob's log has no section
\* for today, another wrote a body with the blocks of both contributors.
C8_BodiesWithOneAndTwoBlocks ==
    /\ result["Alice"].status = "ok" /\ run["Alice"].workflow = "pr"
    /\ result["Bob"].status = "ok" /\ run["Bob"].workflow = "pr"
    /\ FileOf(WorkingCopy("Alice"), "Bob") # NoFile
    /\ ~HasTodaySection(WorkingCopy("Alice"), "Bob")
    /\ Occurrences(result["Alice"].body, BlockHeading("Alice")) = 1
    /\ Occurrences(result["Bob"].body, BlockHeading("Alice")) = 1
    /\ Occurrences(result["Bob"].body, BlockHeading("Bob")) = 1

\* C9: every run that failed at the push step has written the items and the
\* blockers of its entry to the recovery file, and the error it returned names
\* the path of that file.
C9_PushFailureSavesEntry ==
    \A c \in Contributors :
        (result[c].status = "error" /\ result[c].step = "push") =>
            /\ tmp[c] = saveTempStandupContent(run[c].entry, c)
            /\ Contains(result[c].err, TempPath(c, Today))

\* C10: one invocation of the direct push makes at most two push attempts and
\* at most one recovery; after the second push attempt the invocation has ended
\* (with success or an error), and a recovery never starts after it.
C10_AtMostTwoPushesOneRecovery ==
    \A c \in Contributors :
        /\ run[c].nPush <= 2
        /\ run[c].nRecover <= 1
        /\ run[c].nPush = 2 => (pc[c] = "idle" /\ run[c].nRecover = 1)
        /\ pc[c] \in {"retryFetch", "retryPull", "push2"} => run[c].nPush = 1

\* A second push that was rejected, nothing failing in the environment: the
\* invocation ended with the error of the second push.
C10_SecondPushRejected ==
    \E c \in Contributors :
        /\ run[c].workflow = "direct"
        /\ run[c].nPush = 2 /\ run[c].nRecover = 1
        /\ ~run[c].faulted
        /\ pc[c] = "idle"
        /\ result[c].status = "error"
        /\ Contains(result[c].err, <<"push failed after sync">>)

\* C11: in the push recovery, a pull with rebase that fails is followed by a
\* merge of the remote-tracking branch: when the merge succeeds the local branch
\* holds the merge and the second push is next; when the merge fails too the
\* invocation ends with one error that holds the output of the pull and the
\* error of the merge, and no second push was made (one push attempt in all,
\* the shared repository and the clone as they were).
C11_RebaseFailureFallsBackToMerge ==
    /\ [][ \A c \in Contributors :
             LET b == clone[c].cur
                 local == clone[c].heads[b]
                 tracked == clone[c].orig[b]
             IN  ( /\ pc[c] = "retryPull"
                   /\ pc'[c] # "retryPull"
                   /\ (nFaults' # nFaults \/ Conflict(local, remote[b])) )
                 => IF Conflict(local, tracked) \/ CommonLen(local, tracked) = 0
                    THEN /\ pc'[c] = "idle"
                         /\ result'[c].status = "error"
                         /\ \E out \in {pullOutput(TRUE), pullOutput(FALSE)} :
                               Contains(result'[c].err, <<"pull error: ", out>>)
                         /\ Contains(result'[c].err, <<", merge error: ", "exit status 1">>)
                         /\ run'[c].nPush = 1
                         /\ remote' = remote
                         /\ clone' = clone
                    ELSE /\ pc'[c] = "push2"
                         /\ clone'[c].heads[b] = Replay(local, tracked)
                         /\ result'[c] = result[c] ]_vars
    /\ [](\A c \in Contributors :
            Contains(result[c].err, <<"failed to sync before push (tried rebase and merge): ">>)
            => (pc[c] = "idle" /\ run[c].nPush = 1 /\ run[c].nRecover = 1))

\* The pull with rebase and the merge have both failed in one invocation.
C11_RebaseAndMergeFailed ==
    \E c \in Contributors :
        /\ pc[c] = "idle"
        /\ result[c].status = "error"
        /\ Contains(result[c].err, <<"pull error: ", pullOutput(TRUE)>>)
        /\ Contains(result[c].err, <<", merge error: ", "exit status 1">>)
        /\ run[c].nPush = 1

\* The entry the direct workflow is about to save, and whether saving it
\* leaves the personal log of the working copy as it is (nothing to stage).
EntryToSave(c) == IF run[c].path = "cli" THEN ParseJSONInput(run[c].input) ELSE run[c].entry

NothingToStage(c) ==
    /\ pc[c] = "save"
    /\ ~(run[c].path = "cli" /\ ParseJSONInputFails(run[c].input))
    /\ SaveEntryContent(FileOf(WorkingCopy(c), c), EntryToSave(c), c) = FileOf(WorkingCopy(c), c)

\* C12: a CommitAndPush that finds nothing staged returns the error "no
\* changes to commit" and makes neither a commit nor a push: the local
\* branches and the shared repository are as before the call, and no push
\* attempt was counted.
C12_NothingStagedNoCommitNoPush ==
    [][ \A c \in Contributors :
          (NothingToStage(c) /\ pc'[c] # "save")
          => ( /\ pc'[c] = "idle"
               /\ result'[c].status = "error"
               /\ Contains(result'[c].err, <<"no changes to commit">>)
               /\ ~Contains(result'[c].err, <<"failed to push to remote: ">>)
               /\ clone' = clone
               /\ remote' = remote
               /\ run'[c].nPush = 0 ) ]_vars

\* A run whose save left the personal log unchanged has returned.
C12_ReturnedNoChanges ==
    \E c \in Contributors :
        /\ run[c].workflow = "direct"
        /\ pc[c] = "idle"
        /\ result[c].status = "error"
        /\ result[c].step = "commit"
        /\ run[c].nPush = 0
        /\ HasTodaySection(WorkingCopy(c), c)

\* C13: in the upsert of the pull request, a run that found a pull request for
\* the daily branch and whose replacement of the body failed returns success
\* with the number of the pull request it found, the pull requests as they
\* were; a run that found none and whose creation failed (the environment, or
\* the host refusing) returns a failure and no pull request was created.
C13_UpdateFailureIsNotFatal ==
    [][ \A c \in Contributors :
          (pc[c] = "prUpsert" /\ pc'[c] # "prUpsert")
          => /\ (run[c].prExists /\ nFaults' # nFaults)
                => ( /\ result'[c].status = "ok"
                     /\ result'[c].pr = run[c].prNumber
                     /\ run[c].prNumber \in OpenPRs(Daily)
                     /\ prs' = prs )
             /\ (~run[c].prExists /\ (nFaults' # nFaults \/ ~HostAcceptsPR(clone[c].cur)))
                => ( /\ result'[c].status = "error"
                     /\ result'[c].step = "pr"
                     /\ Contains(result'[c].err, <<"failed to create pull request: ">>)
                     /\ prs' = prs ) ]_vars

\* A run has returned success with the number of the pull request it found
\* although its update failed: the pull request still has the earlier body.
C13_UpdateFailedThenSuccess ==
    \E c \in Contributors :
        /\ pc[c] = "idle"
        /\ run[c].faulted
        /\ result[c].status = "ok"
        /\ result[c].pr \in OpenPRs(Daily)
        /\ prs[result[c].pr].body # result[c].body

\* C14: a merge operation that finds no open pull request for today's branch
\* ends with the error "no pull request found" without a merge-by-number call,
\* the host and the shared repository as they were; and once the
\* merge-by-number call has succeeded the operation returns success with the
\* number of the merged pull request, whether or not the switch to main or the
\* re-sync of the cleanup fails.
C14_MergeNeedsPullRequestAndSurvivesCleanup ==
    /\ [][ \A c \in Contributors :
             /\ (pc[c] = "mergeQuery" /\ pc'[c] # "mergeQuery" /\ OpenPRs(Daily) = {})
                => ( /\ pc'[c] = "idle"
                     /\ result'[c].status = "error"
                     /\ Contains(result'[c].err, <<"no pull request found for today's standups">>)
                     /\ run'[c].nMergeCalls = 0
                     /\ prs' = prs
                     /\ remote' = remote )
             /\ (pc[c] = "cleanup" /\ pc'[c] # "cleanup")
                => ( /\ pc'[c] = "idle"
                     /\ result'[c].status = "ok"
                     /\ result'[c].pr = run[c].prNumber
                     /\ ~prs[run[c].prNumber].open ) ]_vars
    /\ [](\A c \in Contributors :
            /\ pc[c] = "cleanup" => (run[c].nMergeCalls = 1 /\ ~prs[run[c].prNumber].open)
            /\ pc[c] = "mergeCall" => run[c].prNumber \in 1..Len(prs)
            /\ (run[c].workflow = "merge" /\ result[c].step = "find") => run[c].nMergeCalls = 0)

\* One merge operation has ended for want of a pull request, and another has
\* merged the pull request and returned success although its cleanup could not
\* switch to main.
C14_NoneFoundAndCleanupFailed ==
    \E a, b \in Contributors :
        /\ run[a].workflow = "merge" /\ pc[a] = "idle" /\ ~run[a].faulted
        /\ result[a].status = "error" /\ result[a].step = "find"
        /\ run[b].workflow = "merge" /\ pc[b] = "idle"
        /\ result[b].status = "ok"
        /\ Contains(result[b].err, <<"could not switch to main branch: ">>)
        /\ ~prs[result[b].pr].open

\* C15: every CLI run in the json output format that failed, at whatever step
\* of the direct or the pull-request workflow, has printed exactly one JSON
\* object, with success false and the non-empty text of the error, and the
\* workflow function has returned no error.
C15_JSONFailureIsOneObjectAndNilError ==
    \A c \in Contributors :
        (run[c].outputFormat = "json" /\ result[c].status = "error")
        => ( /\ Len(result[c].printed) = 1
             /\ result[c].printed[1].success = FALSE
             /\ result[c].printed[1].error # <<>>
             /\ result[c].printed[1].error = result[c].err
             /\ result[c].returned = <<>> )

\* Two runs in the json format have failed, one of the pull-request workflow
\* at the parsing of the input, one of the direct workflow at the push.
C15_JSONRunsFailedAtParseAndPush ==
    \E a, b \in Contributors :
        /\ run[a].outputFormat = "json" /\ run[a].workflow = "pr"
        /\ result[a].status = "error" /\ result[a].step = "parse"
        /\ run[b].outputFormat = "json" /\ run[b].workflow = "direct"
        /\ result[b].status = "error" /\ result[b].step = "push"
        /\ Len(result[a].printed) = 1 /\ Len(result[b].printed) = 1

\* C16: SyncRepository returns without an error and leaves the branches of the
\* clone and the checked-out branch as they are when the clone is empty, when
\* HEAD is detached, or when the shared repository has no branch of the name of
\* the checked-out branch (the fetch, where one is made, succeeding); and a
\* fetch that fails is returned as an error.
C16_SyncIsNoOpWithoutCounterpart ==
    [][ \A c \in Contributors :
          (pc[c] = "sync" /\ pc'[c] # "sync")
          => /\ ( /\ nFaults' = nFaults
                  /\ \/ isEmptyRepository(clone[c])
                     \/ clone[c].cur = Detached
                     \/ remote[clone[c].cur] = <<>> )
                => ( /\ result'[c].status # "error"
                     /\ clone'[c].heads = clone[c].heads
                     /\ clone'[c].cur = clone[c].cur )
             /\ nFaults' # nFaults
                => ( /\ result'[c].status = "error"
                     /\ Contains(result'[c].err, <<"failed to fetch remote changes">>)
                     /\ clone' = clone ) ]_vars

SameDate(t1, t2) == t1.year = t2.year /\ t1.month = t2.month /\ t1.day = t2.day

\* C17: the name of the daily branch is "standup/" followed by the date of the
\* run as YYYY-MM-DD: whichever contributors name it, for a submit or for the
\* merge, and at whatever time of day, two runs on one date use one name and
\* two runs on different dates use different names.
C17_OneBranchNamePerDate ==
    \A a, b \in Contributors :
        (run[a].branchName # <<>> /\ run[b].branchName # <<>>)
        => /\ Len(run[a].branchName) = 11
           /\ run[a].branchName[1] = "standup/"
           /\ run[a].branchName[6] = "-" /\ run[a].branchName[9] = "-"
           /\ (run[a].branchName = run[b].branchName) <=> SameDate(run[a].now, run[b].now)

\* A submit early in the day and the merge late on the same day have named the
\* same branch.
C17_SubmitAndMergeOfOneDate ==
    /\ run["Alice"].workflow = "pr" /\ run["Bob"].workflow = "merge"
    /\ run["Alice"].branchName # <<>>
    /\ run["Alice"].branchName = run["Bob"].branchName
    /\ run["Alice"].now.hour # run["Bob"].now.hour
    /\ run["Alice"].now.day = 1 /\ run["Alice"].now.month = 11

Constructed(way) == run[LogUser].n = 1 /\ run[LogUser].path = way

BothListsEmpty(input) == input.Yesterday = <<>> /\ input.Today = <<>>

\* C18: ParseJSONInput fails with the error that asks for at least one item and
\* returns no entry when both lists are empty or absent; with an item in either
\* list it returns the entry with the two lists as given, and with blockers
\* "None" when the blockers are absent or empty.
C18_ParseNeedsAnItemAndDefaultsBlockers ==
    Constructed("cli")
    => LET input == run[LogUser].input
       IN  IF BothListsEmpty(input)
           THEN /\ result[LogUser].status = "error"
                /\ Contains(result[LogUser].err, <<"at least one of 'yesterday' or 'today' must have entries">>)
                /\ saved = NoEntry
                /\ log = NoFile
           ELSE /\ result[LogUser].status = "ok"
                /\ saved # NoEntry
                /\ saved.Yesterday = input.Yesterday
                /\ saved.Today = input.Today
                /\ (input.Blockers = <<>> => saved.Blockers = <<"None">>)

\* An input with one prior item, no current item and no blockers was parsed.
C18_ParsedOneListAndNoBlockers ==
    /\ Constructed("cli")
    /\ run[LogUser].input.Yesterday = <<"did x">>
    /\ run[LogUser].input.Today = <<>>
    /\ run[LogUser].input.Blockers = <<>>
    /\ result[LogUser].status = "ok"
    /\ saved.Blockers = <<"None">>

Blank(text) == TrimSpace(text) = <<>>

\* C19: whichever way an entry is made (prompt, JSON input, RPC tool), blockers
\* that are empty or hold only white space are "None" in the entry and in the
\* section written for it.
C19_BlankBlockersBecomeNone ==
    \A way \in Ways :
        (Constructed(way) /\ result[LogUser].status = "ok" /\ Blank(run[LogUser].input.Blockers))
        => /\ saved.Blockers = <<"None">>
           /\ Contains(log, <<"**Blockers:**", NL, "None", NL>>)

RECURSIVE Bullets(_)
Bullets(items) ==
    IF items = <<>> THEN <<>> ELSE <<"-", " ", Head(items), NL>> \o Bullets(Tail(items))

RenderedList(doc, title, items, placeholder) ==
    IF items = <<>>
    THEN Contains(doc, <<title, NL, "-", " ", placeholder, NL, NL>>)
    ELSE /\ Contains(doc, <<title, NL>> \o Bullets(items) \o <<NL>>)
         /\ ~Contains(doc, <<placeholder>>)

\* C20: in the section written for an entry, an empty list of yesterday's items
\* is the one bullet "Nothing to report" and an empty list of today's items the
\* one bullet "Nothing planned"; a list with items is one bullet per item, in
\* the order of the input, and the placeholder is not written.
C20_PlaceholderOrOneBulletPerItem ==
    (run[LogUser].n = 1 /\ result[LogUser].status = "ok")
    => /\ saved.Yesterday = run[LogUser].input.Yesterday
       /\ saved.Today = run[LogUser].input.Today
       /\ RenderedList(log, "**Yesterday:**", saved.Yesterday, "Nothing to report")
       /\ RenderedList(log, "**Today:**", saved.Today, "Nothing planned")

\* A section with two items of yesterday, in the order given, and the
\* placeholder for today has been written.
C20_TwoItemsAndAPlaceholder ==
    /\ run[LogUser].n = 1 /\ result[LogUser].status = "ok"
    /\ run[LogUser].input.Yesterday = <<"did y", "did x">>
    /\ run[LogUser].input.Today = <<>>
    /\ Contains(log, <<"-", " ", "did y", NL, "-", " ", "did x", NL, NL>>)
    /\ Contains(log, <<"-", " ", "Nothing planned", NL>>)

DaysBack(c) == DayNumber(run[c].now) - DayNumber(run[c].since)

\* C21: GetLastWorkingDay(d) is the day 3 days before d when d is a Monday, the
\* day 2 days before d when d is a Sunday and the day before d on any other
\* day of the week, at the same time of day.
C21_LastWorkingDayIsThreeTwoOrOneBack ==
    \A c \in Contributors :
        run[c].since # NoTime
        => /\ run[c].since.day \in 1..DaysIn(run[c].since.year, run[c].since.month)
           /\ run[c].since.month \in 1..12
           /\ run[c].since.hour = run[c].now.hour
           /\ DaysBack(c) = CASE Weekday(run[c].now) = Monday -> 3
                               [] Weekday(run[c].now) = Sunday -> 2
                               [] OTHER -> 1

\* Asked on Sunday 2 March 2025, the last working day is Friday 28 February.
C21_SundayAfterFebruary ==
    /\ run[LogUser].now = [year |-> 2025, month |-> 3, day |-> 2, hour |-> 23]
    /\ Weekday(run[LogUser].now) = Sunday
    /\ run[LogUser].since = [year |-> 2025, month |-> 2, day |-> 28, hour |-> 23]

ClaimedSkip(subject) ==
    \E i \in 1..Len(skipPatterns) : Contains(stringsToLower(subject), skipPatterns[i])

StripOnePrefix(subject) ==
    IF \E i \in 1..Len(prefixes) : HasPrefix(stringsToLower(subject), prefixes[i])
    THEN LET i == Min({k \in 1..Len(prefixes) : HasPrefix(stringsToLower(subject), prefixes[k])})
         IN  TrimSpace(SubSeq(subject, Len(prefixes[i]) + 1, Len(subject)))
    ELSE subject

\* The first letter as a capital, whether it is one byte or two.
Capitalised(text) ==
    IF text = <<>> THEN text
    ELSE IF Len(text) >= 2 /\ text[1] = "0xC3" /\ text[2] \in {"0x89", "0xA9"}
    THEN <<"0xC3", "0x89">> \o SubSeq(text, 3, Len(text))
    ELSE <<ASCIIToUpper(text[1])>> \o Tail(text)

ClaimedItem(subject) == TrimSuffix(Capitalised(StripOnePrefix(subject)), <<".">>)

SameItem(a, b) == stringsToLower(TrimSpace(a)) = stringsToLower(TrimSpace(b))

Remaining(commits) == {i \in 1..Len(commits) : ~ClaimedSkip(commits[i].Subject)}

\* C22: ExtractWorkItems gives no item for a commit whose subject holds a skip
\* pattern in any case of letters, and for every other commit the item that
\* is its subject without one leading conventional-commit prefix, with its
\* first letter as a capital and without one trailing period (an item equal
\* to an earlier one but for case and outer space is given once, and a
\* subject of which nothing is left gives no item).
C22_ItemsAreTheNormalisedSubjects ==
    run[LogUser].workflow = "suggest" /\ run[LogUser].commits # <<>>
    => LET commits == run[LogUser].commits
           items   == run[LogUser].items
       IN  /\ \A k \in 1..Len(items) :
                 \E i \in Remaining(commits) : items[k] = ClaimedItem(commits[i].Subject)
           /\ \A i \in Remaining(commits) :
                 ClaimedItem(commits[i].Subject) # <<>>
                 => \E k \in 1..Len(items) : SameItem(items[k], ClaimedItem(commits[i].Subject))

\* The place in the list of candidates of the first one equal to the item but
\* for case and outer space.
FirstOccurrence(candidates, item) ==
    Min({j \in 1..Len(candidates) : SameItem(candidates[j], item)})

\* C23: no two items of the list ExtractWorkItems returns are equal after
\* trimming white space and lower-casing; of the candidates that are equal in
\* this way the first is the one kept, with its own text, every candidate has
\* its kept item, and the kept items stand in the order of their commits.
C23_FirstOfEqualItemsKeptInOrder ==
    run[LogUser].workflow = "suggest"
    => LET candidates == collectItems(run[LogUser].commits)
           items      == run[LogUser].items
       IN  /\ \A k, l \in 1..Len(items) : k # l => ~SameItem(items[k], items[l])
           /\ \A j \in 1..Len(candidates) :
                 \E k \in 1..Len(items) : SameItem(items[k], candidates[j])
           /\ \A k \in 1..Len(items) :
                 /\ \E j \in 1..Len(candidates) : SameItem(candidates[j], items[k])
                 /\ items[k] = candidates[FirstOccurrence(candidates, items[k])]
           /\ \A k, l \in 1..Len(items) :
                 k < l => FirstOccurrence(candidates, items[k]) < FirstOccurrence(candidates, items[l])

\* Of the commits "AB" and then "fix: ab." the one item "AB" is kept.
C23_SecondOfTwoEqualItemsDropped ==
    /\ run[LogUser].workflow = "suggest"
    /\ Len(run[LogUser].commits) = 2
    /\ run[LogUser].commits[1].Subject = <<"A", "B">>
    /\ run[LogUser].commits[2].Subject = <<"f", "i", "x", ":", " ", "a", "b", ".">>
    /\ run[LogUser].items = << <<"A", "B">> >>

\* The daily branch of the clone of c as the step of convergence left it,
\* before the commit of the same step.
Converged(c) ==
    IF pc'[c] = "push"
    THEN SubSeq(clone'[c].heads[Daily], 1, Len(clone'[c].heads[Daily]) - 1)
    ELSE clone'[c].heads[Daily]

\* C24: the step of convergence does one of three things, by where the daily
\* branch exists: with a local branch it switches to it and brings it up to
\* the branch of the shared repository; with none but one in the shared
\* repository it makes the local branch from that one; with none anywhere it
\* makes the branch from the current HEAD.  In each case the clone is on the
\* daily branch afterwards.
C24_ConvergenceByLocalAndRemoteBranch ==
    [][ \A c \in Contributors :
          (pc[c] = "branch" /\ pc'[c] # "branch")
          => /\ clone'[c].cur = Daily
             /\ (clone[c].heads[Daily] # <<>> /\ nFaults' = nFaults
                    /\ IsPrefix(clone[c].heads[Daily], remote[Daily]))
                => Converged(c) = remote[Daily]
             /\ (clone[c].heads[Daily] = <<>> /\ remote[Daily] # <<>>)
                => Converged(c) = remote[Daily]
             /\ (clone[c].heads[Daily] = <<>> /\ remote[Daily] = <<>>)
                => Converged(c) = clone[c].heads[clone[c].cur] ]_vars

WritesLog(c, b) ==
    /\ clone'[c].heads[b] # clone[c].heads[b]
    /\ clone'[c].heads[b] # <<>>
    /\ clone'[c].heads[b][Len(clone'[c].heads[b])].file = c
    /\ ~IsPrefix(clone'[c].heads[b], remote[b])

\* C26: a run of the pull-request workflow takes the steps of convergence with
\* writing and commit, push, and upsert of the pull request in this order and
\* ends at the first that fails: the personal log is written and committed
\* only in the branch step and on the daily branch, with the clone on it; a
\* pull request is created or updated only by the upsert step of a run whose
\* push in the same run was accepted; success is returned by the upsert step
\* alone.
C26_StepsInOrderAndFailureStops ==
    [][ \A c \in Contributors :
          pc'[c] # pc[c]
          => /\ pc[c] = "branch" => pc'[c] \in {"push", "idle"}
             /\ pc[c] = "push" => pc'[c] \in {"prQuery", "idle"}
             /\ pc[c] = "prQuery" => pc'[c] = "prUpsert"
             /\ pc[c] = "prUpsert" => pc'[c] = "idle"
             /\ (pc[c] \in {"branch", "push"} /\ pc'[c] = "idle")
                => (result'[c].status = "error" /\ prs' = prs /\ remote' = remote)
             /\ result'[c].status = "ok" => pc[c] = "prUpsert"
             /\ \A b \in DOMAIN clone[c].heads :
                   WritesLog(c, b)
                   => (pc[c] = "branch" /\ b = Daily /\ clone'[c].cur = Daily)
             /\ prs' # prs
                => /\ pc[c] = "prUpsert"
                   /\ run[c].nPush = 1
                   /\ clone[c].cur = Daily
                   /\ clone[c].orig[Daily] = clone[c].heads[Daily]
                   /\ IsPrefix(clone[c].heads[Daily], remote[Daily]) ]_vars

\* One run has created the pull request, and the run of the other contributor
\* has ended at its rejected push without a pull request of its own.
C26_OneRunUpsertedOneStoppedAtPush ==
    /\ result["Alice"].status = "ok"
    /\ Len(prs) = 1
    /\ result["Bob"].status = "error"
    /\ result["Bob"].step = "push"
    /\ pc["Bob"] = "idle"

\* C27: when the pull-request runs of the two contributors for one date have
\* both ended with success, in any interleaving of their steps, the open pull
\* request of the daily branch has in its body a block for every contributor
\* whose section for the date is on the daily branch of the shared repository.
C27_BodyHoldsEveryPushedSection ==
    ( /\ \A c \in Contributors : pc[c] = "idle" /\ result[c].status = "ok"
      /\ remote[Daily] # <<>> )
    => \E n \in OpenPRs(Daily) :
          \A c \in Contributors :
              HasTodaySection(remote[Daily], c) => Contains(prs[n].body, BlockHeading(c))

\* C28: when each of the two contributors has run the direct workflow once,
\* their steps interleaved in any way and nothing failing in the environment,
\* and both runs came to push, then both runs ended with success and the main
\* branch of the shared repository holds the sections of both; the run whose
\* push was rejected needed the recovery once.
C28_BothDirectRunsSucceed ==
    ( /\ \A c \in Contributors : pc[c] = "idle" /\ run[c].n = 1 /\ run[c].nPush >= 1
      /\ nFaults = 0 )
    => \A c \in Contributors :
          /\ result[c].status = "ok"
          /\ run[c].nRecover <= 1
          /\ run[c].nPush = run[c].nRecover + 1
          /\ HasTodaySection(remote[MainBranch], c)

\* Both runs have ended, the push of one was rejected and its recovery made
\* the second push succeed.
C28_RejectedPushRecovered ==
    /\ \A c \in Contributors : pc[c] = "idle" /\ run[c].n = 1 /\ result[c].status = "ok"
    /\ nFaults = 0
    /\ run["Alice"].nRecover = 0
    /\ run["Bob"].nRecover = 1 /\ run["Bob"].nPush = 2
    /\ HasTodaySection(remote[MainBranch], "Alice")
    /\ HasTodaySection(remote[MainBranch], "Bob")

\* An earlier run of c failed at the push and left this run's entry in the
\* recovery file.
RerunAfterFailedPush(c) ==
    /\ run[c].n >= 2
    /\ run[c].workflow = "pr"
    /\ run[c].entry # NoEntry
    /\ tmp[c] = saveTempStandupContent(run[c].entry, c)

\* C29: when a pull-request run of c has failed at the push, with the entry
\* committed on the local daily branch and not published, and c runs the
\* workflow again with the same entry on the same day, and in this run nothing
\* fails in the environment and no push is rejected, then at the end of the run
\* the entry is on the daily branch of the shared repository.
C29_RerunPublishesTheEntry ==
    [][ \A c \in Contributors :
          ( /\ pc[c] \notin {"idle", "push", "pushMain"}
            /\ pc'[c] = "idle"
            /\ RerunAfterFailedPush(c)
            /\ ~run'[c].faulted )
          => HasTodaySection(remote'[Daily], c) ]_vars

\* C30: in the pull-request workflow the commit step of every run, a second
\* run of a contributor on the same day included, finds changes to commit and
\* succeeds: no run ends at the commit.
C30_CommitStepAlwaysFindsChanges ==
    [][ \A c \in Contributors :
          (run[c].workflow = "pr" /\ pc[c] = "branch" /\ pc'[c] # "branch")
          => /\ pc'[c] = "push"
             /\ result'[c].step # "commit"
             /\ Len(clone'[c].heads[Daily]) > Len(Converged(c)) ]_vars

----------------------------------------------------------------------------
(* What the claims about the end of the replaced section speak of *)

\* The lines of a written document that follow the new section and the blank
\* line after it: what the write retained of the existing document.
RetainedLines(doc, entry) ==
    LET lines == Split(doc)
        first == 2 + (Len(Split(formatEntry(entry))) - 1) + 2
    IN  SubSeq(lines, first, Len(lines))

LineCount(lines, line) == Cardinality({i \in 1..Len(lines) : lines[i] = line})

\* The index of the line that ends the section of date d: the first delimiter
\* or level-2 heading after the heading of the section, 0 when there is none.
SectionEnd(doc, d) ==
    LET lines == Split(doc)
        start == Min(HeadingIndexes(doc, d))
        ends  == {j \in (start + 1)..Len(lines) :
                    lines[j] = Separator \/ HasPrefix(lines[j], <<"#", "#", " ">>)}
    IN  IF ends = {} THEN 0 ELSE Min(ends)

DoubledDelimiter(lines) ==
    \E i \in 1..(Len(lines) - 1) : lines[i] = Separator /\ lines[i + 1] = Separator

\* A write that replaces the one section of the date of the entry.
Replaces(doc, entry) ==
    /\ doc # NoFile
    /\ entry # NoEntry
    /\ HeadingCount(doc, entry.Date) = 1

\* C31: when the section being replaced ends at a "---" line, that line is
\* discarded with the section; when it ends at the level-2 heading of another
\* date, that heading line is kept, at the start of the retained section that
\* follows. A replacement does not produce two consecutive delimiter lines:
\* the written document has them only if the existing document had them.
C31_EndOfReplacedSection ==
    [][ Replaces(log, saved') =>
          LET lines == Split(log)
              end   == SectionEnd(log, saved'.Date)
              kept  == RetainedLines(log', saved')
          IN  /\ (end # 0 /\ lines[end] = Separator)
                    => LineCount(kept, Separator) <= LineCount(lines, Separator) - 1
              /\ (end # 0 /\ lines[end] # Separator)
                    => LineCount(kept, lines[end]) = LineCount(lines, lines[end])
              /\ DoubledDelimiter(Split(log')) => DoubledDelimiter(lines) ]_vars

\* The indexes of the lines of the sections of date d, their headings and a
\* delimiter that ends one of them included: a line is in such a section when
\* a heading of the date precedes it with no delimiter and no level-2 heading
\* of another date in between, the line itself not being such a heading.
MatchedIndexes(doc, d) ==
    LET lines == Split(doc)
        OtherHeading(j) == HasPrefix(lines[j], <<"#", "#", " ">>) /\ ~IsDateHeading(lines[j], d)
        Ends(j) == lines[j] = Separator \/ OtherHeading(j)
        starts == {i \in 1..Len(lines) : IsDateHeading(lines[i], d)}
    IN  {i \in 1..Len(lines) :
           \/ i \in starts
           \/ /\ ~OtherHeading(i)
              /\ \E start \in starts :
                    start < i /\ \A j \in (start + 1)..(i - 1) : ~Ends(j)}

\* The blank lines inside the retained sections of a document that starts with
\* its header line: a retained line that is not blank precedes them after the
\* header and another one follows them.
InteriorBlanks(doc, d) ==
    LET lines == Split(doc)
        matched == MatchedIndexes(doc, d)
        Solid(j) == lines[j] # <<>> /\ j \notin matched
    IN  {i \in 3..Len(lines) :
           /\ lines[i] = <<>>
           /\ i \notin matched
           /\ \E j \in 2..(i - 1) : Solid(j)
           /\ \E j \in (i + 1)..Len(lines) : Solid(j)}

\* C32: a write keeps the blank lines inside the sections it retains: the
\* retained part of the written document holds as many blank lines as the
\* retained sections of the existing document held.
C32_InteriorBlankLinesKept ==
    [][ ( /\ log # NoFile
          /\ log # <<>>
          /\ isHeader(Split(log)[1]) )
        => LineCount(RetainedLines(log', saved'), <<>>)
             >= Cardinality(InteriorBlanks(log, saved'.Date)) ]_vars

\* The indexes of the header-like lines of a document, and the first of them.
HeaderIndexes(doc) ==
    LET lines == Split(doc)
    IN  {i \in 1..Len(lines) : isHeader(lines[i])}

NonBlankLines(lines) == SelectSeq(lines, LAMBDA l : l # <<>>)

\* The lines of the existing document that a write for date d is to retain,
\* in their order: the lines after the first header-like line that are not
\* blank and, when inReplaced is set, are outside the sections of the date.
LinesToRetain(doc, d, inReplaced) ==
    LET lines == Split(doc)
        first == Min(HeaderIndexes(doc))
        matched == MatchedIndexes(doc, d)
        index == SelectSeq([i \in 1..Len(lines) |-> i],
                           LAMBDA i : /\ i > first
                                      /\ lines[i] # <<>>
                                      /\ (inReplaced \/ i \notin matched))
    IN  [k \in 1..Len(index) |-> lines[index[k]]]

SeveralHeaders(doc) ==
    /\ doc # NoFile
    /\ Cardinality(HeaderIndexes(doc)) >= 2

\* Of two line sequences: header-like lines at the same positions.
SameHeaderPositions(a, b) ==
    /\ Len(a) = Len(b)
    /\ \A k \in 1..Len(a) : isHeader(a[k]) <=> isHeader(b[k])

----------------------------------------------------------------------------
(* What the claim about the file system speaks of *)

Returned(c) == result[c].status = "error" /\ result[c].returned # <<>>

\* C34: SaveEntry on a missing file writes the header line, a blank line, the
\* rendered section and a trailing blank line; when the file system fails the
\* read for another reason than a missing file, or fails the write, SaveEntry
\* returns an error, and after a failed read the file is as it was.
C34_MissingFileIsEmptyAndFailuresReturned ==
    [][ nSaves' = nSaves + 1 =>
          LET fault == run'[LogUser].fsFault
              entry == run'[LogUser].entry
          IN  /\ (fault = "none" /\ log = NoFile)
                    => /\ result'[LogUser].status = "ok"
                       /\ log' = HeaderLine(LogUser) \o <<NL>> \o <<NL>>
                                   \o formatEntry(entry) \o <<NL>>
              /\ fault \in {"read", "write"} => Returned(LogUser)'
              /\ fault = "read" => log' = log ]_vars

\* A failed read of an existing file, written by an earlier call on a missing
\* file, and the file still as that call wrote it.
C34_ReadFailedAfterFirstWrite ==
    /\ nSaves = 2
    /\ run[LogUser].fsFault = "read"
    /\ Returned(LogUser)
    /\ saved # NoEntry
    /\ log = buildNewFileContent(saved, LogUser)

----------------------------------------------------------------------------
(* What the claims about the main branch and the push speak of *)

\* The personal log of c as the branches of their clone hold it.
LogsOf(cl, c) == [b \in Branches |-> FileOf(cl.heads[b], c)]

\* C35: the step ensureMainBranch of the pull-request workflow commits the
\* placeholder README, to push main next, exactly when main exists neither in
\* the clone nor in the shared repository, and has local main checked out when
\* it exists and the step did not fail; a run that fails in ensureMainBranch or
\* in the push of main ends there, and no entry was written or committed.
C35_BootstrapExactlyWhenNoMain ==
    [][ \A c \in Contributors :
          /\ (pc[c] = "ensureMain" /\ pc'[c] # "ensureMain")
                => /\ (pc'[c] = "pushMain")
                         <=> (clone[c].heads[MainBranch] = <<>> /\ remote[MainBranch] = <<>>)
                   /\ (clone[c].heads[MainBranch] # <<>> /\ result'[c].status # "error")
                         => clone'[c].cur = MainBranch
          /\ (pc[c] \in {"ensureMain", "pushMain"} /\ result'[c].status = "error")
                => /\ pc'[c] = "idle"
                   /\ LogsOf(clone'[c], c) = LogsOf(clone[c], c)
                   /\ tmp'[c] = tmp[c] ]_vars

----------------------------------------------------------------------------
(* What the claims about a second write and about the pull-request block   *)
(* speak of                                                                *)

\* C37: a SaveEntry of the entry that the SaveEntry before it wrote leaves the
\* document as it is, token for token, whatever the document was before the
\* first of the two writes.
C37_SecondWriteOfSameEntryIsFixpoint ==
    [][ ( /\ saved # NoEntry
          /\ saved' = saved
          /\ nSaves' = nSaves + 1 )
        => log' = log ]_vars

\* The text of a section between its heading line and its delimiter line.
EntryBody(entry) ==
    TrimSpace(formatSection("**Yesterday:**", entry.Yesterday, "Nothing to report")
              \o formatSection("**Today:**", entry.Today, "Nothing planned")
              \o <<"**Blockers:**", NL>> \o entry.Blockers)

\* C38: from a document that SaveEntry wrote for an entry of today,
\* extractTodayStandup returns the text of that entry's section without the
\* heading line and the delimiter line.
C38_ExtractReturnsBodyJustWritten ==
    (saved # NoEntry /\ saved.Date = Today) => extractTodayStandup(log) = EntryBody(saved)

----------------------------------------------------------------------------
(* What the claims about the synchronisation and the rejected input speak of *)

\* C39: a SyncRepository that returns without an error in a clone whose
\* checked-out branch exists in the shared repository leaves that branch, in
\* the clone, equal to the branch of the shared repository, still checked out:
\* commits that were not pushed are gone.
C39_SyncLeavesLocalEqualToRemote ==
    [][ \A c \in Contributors :
          ( /\ pc[c] = "sync"
            /\ pc'[c] # "sync"
            /\ result'[c].status # "error"
            /\ clone[c].cur # Detached
            /\ remote[clone[c].cur] # <<>> )
          => ( /\ clone'[c].cur = clone[c].cur
               /\ clone'[c].heads[clone[c].cur] = remote[clone[c].cur] ) ]_vars

\* C40: the step of a run of the command line that rejects the structured
\* input, in the direct and in the pull-request workflow, makes no commit and
\* no push: the branches of the clone and the shared repository are after the
\* step as they were before it.
C40_RejectedInputChangesNoHistory ==
    [][ \A c \in Contributors :
          ( /\ pc[c] # "idle"
            /\ pc'[c] = "idle"
            /\ result'[c].status = "error"
            /\ result'[c].step = "parse" )
          => ( /\ clone'[c].heads = clone[c].heads
               /\ remote' = remote ) ]_vars

====
